---- MODULE Spec2Model ----
(***************************************************************************)
(* Model of the in-memory todo store (internal/todo/todo.go): the          *)
(* TodoStore guarded by one sync.RWMutex and its concurrent callers        *)
(* (Spec), the HTTP handlers that read and write records through the       *)
(* pointers the store hands out (SpecAPI), and the link builder            *)
(* (SpecLinks).                                                            *)
(***************************************************************************)
EXTENDS Integers, Sequences, FiniteSets, TLC

\* ---------------------------------------------------------------- bounds
\* Number of records the callers may create in one behaviour.
MaxID == 2
\* Number of records the POST requests may create in one behaviour.
MaxPosts == 1
\* Width of the machine integer (Go's int), scaled down.
IntBits == 16
\* The concurrent callers (goroutines) of the store.
Procs == {"g1", "g2"}

\* The inputs the callers pass (TodoInput values).  No two inputs share a
\* title or a description, so a pair made of one input's title and another
\* input's description is not an input.
Inputs ==
  { [Title |-> "",  Description |-> ""],
    [Title |-> "A", Description |-> "a"] }

\* The ids the callers pass; an id is unassigned until nextID has passed it.
IDs == 1 .. MaxID

\* Base URLs handed to the link builder.
BaseURLs == {"http://localhost:8000", "http://example.com"}

NIL == 0

\* ---------------------------------------------------------------- types
\* A *Link is a sequence of length 0 (nil) or 1.
Link(href, method) == << [Href |-> href, Method |-> method] >>

NoLinks ==
  [Self |-> <<>>, Update |-> <<>>, Delete |-> <<>>, Complete |-> <<>>,
   Todos |-> <<>>]

TodoInputZero == [Title |-> "", Description |-> ""]

TodoZero ==
  [ID |-> 0, Title |-> "", Description |-> "", Completed |-> FALSE,
   CreatedAt |-> 0, Links |-> NoLinks]

\* No response written yet: no status, no Location header, no body.
NoResponse ==
  [status |-> 0, location |-> <<>>, error |-> "", body |-> TodoZero,
   todos |-> <<>>]

\* A request body: whether it decodes as JSON, and the TodoInput it decodes
\* to (absent fields decode to the empty string).
Body(ok, in) == [ok |-> ok, value |-> in]

\* No second store.
NoDirect ==
  [heap |-> <<>>, todos |-> << >>, nextID |-> 0, todo |-> NIL, ok |-> FALSE,
   list |-> {}]

\* No request: a caller that is not serving one.
NoRequest == [idStr |-> <<>>, body |-> Body(FALSE, TodoInputZero)]

VARIABLES
  heap,      \* the allocated Todo structs, by address (1..Len(heap))
  todos,     \* TodoStore.todos: id -> address of the record
  nextID,    \* TodoStore.nextID
  mu,        \* TodoStore.mu: the writer holding it, the readers holding it
  now,       \* the wall clock time.Now() reads
  pc,        \* each caller's position
  op,        \* the operation each caller runs
  id,        \* its id argument
  input,     \* its TodoInput argument
  todo,      \* its local *Todo (NIL for nil)
  exists,    \* its local exists / found flag
  list,      \* GetAll's result slice
  copied,    \* handlers: the fields of *todo already read
  resp,      \* handlers: the response under construction
  created,   \* history: addresses of the records Create stored, in order
  deleted,   \* history: ids for which Delete returned true
  fresh,     \* history: id -> input of its Create, until the id is written
  before,    \* history: the record as Update or Complete found it
  fnTodo,    \* link builder: the todo argument
  fnBase,    \* link builder: the baseURL argument
  fnLinks,   \* link builder: the result
  fnDone,    \* link builder, list handler: applied
  colArgs,   \* buildCollectionLinks: page, perPage, total
  colLinks,  \* buildCollectionLinks: the result
  pgReq,     \* GET /todos: the query strings and the number of records
  pgResp,    \* GET /todos: the handler's locals and its response
  req,       \* each request as it arrives: id path segment and body
  changed,   \* history: the request has written to the store
  stage,     \* lifecycle client: the requests it has completed
  lifeID,    \* lifecycle client: the id its POST returned
  direct     \* a second store, called directly, and its last results

storeVars == << heap, todos, nextID, mu, now >>
procVars  == << pc, op, id, input, todo, exists, list, copied, resp >>
histVars  == << created, deleted, fresh, before >>
fnVars    == << fnTodo, fnBase, fnLinks, fnDone, colArgs, colLinks, pgReq,
               pgResp >>
reqVars   == << req, changed, stage, lifeID, direct >>
vars == << heap, todos, nextID, mu, now, pc, op, id, input, todo, exists,
           list, copied, resp, created, deleted, fresh, before, fnTodo,
           fnBase, fnLinks, fnDone, colArgs, colLinks, pgReq, pgResp, req,
           changed, stage, lifeID, direct >>

\* ---------------------------------------------------------------- helpers
Put(f, k, v) == [x \in (DOMAIN f) \cup {k} |-> IF x = k THEN v ELSE f[x]]
Drop(f, k) == [x \in (DOMAIN f) \ {k} |-> f[x]]
Range(f) == { f[x] : x \in DOMAIN f }

\* All orders in which the range loop of GetAll can visit the map.
Orders(S) ==
  { s \in [1 .. Cardinality(S) -> S] :
      \A i, j \in 1 .. Cardinality(S) : i # j => s[i] # s[j] }

\* ---------------------------------------------------------------- links
\* fmt.Sprintf("%s/todos/%d", baseURL, id) and its siblings: the formatted
\* string as the sequence of its pieces.
TodoHref(base, n) == << base, "/todos/", n >>
TodosHref(base) == << base, "/todos" >>
CompleteHref(base, n) == << base, "/todos/", n, "/complete" >>

\* Mutant: the complete link is offered for completed todos.
buildTodoLinksInverted(t, base) ==
  [Self     |-> Link(TodoHref(base, t.ID), "GET"),
   Update   |-> Link(TodoHref(base, t.ID), "PUT"),
   Delete   |-> Link(TodoHref(base, t.ID), "DELETE"),
   Todos    |-> Link(TodosHref(base), "GET"),
   Complete |-> IF t.Completed
                  THEN Link(CompleteHref(base, t.ID), "PATCH")
                  ELSE <<>>]

buildTodoLinks(t, base) ==
  [Self     |-> Link(TodoHref(base, t.ID), "GET"),
   Update   |-> Link(TodoHref(base, t.ID), "PUT"),
   Delete   |-> Link(TodoHref(base, t.ID), "DELETE"),
   Todos    |-> Link(TodosHref(base), "GET"),
   Complete |-> IF ~t.Completed
                  THEN Link(CompleteHref(base, t.ID), "PATCH")
                  ELSE <<>>]

\* ---------------------------------------------------------------- int
\* Go's int: two's complement of IntBits bits; arithmetic wraps around.
MaxInt == 2 ^ (IntBits - 1) - 1
MinInt == 0 - 2 ^ (IntBits - 1)
Wrap(x) == ((x - MinInt) % (2 ^ IntBits)) + MinInt

\* a + b, a - b and a * b on ints.
Add(a, b) == Wrap(a + b)
Sub(a, b) == Wrap(a - b)
Mul(a, b) == Wrap(a * b)

\* a / b on ints, b > 0: the quotient truncated toward zero.
Quo(a, b) == IF a >= 0 THEN a \div b ELSE 0 - ((0 - a) \div b)

\* ---------------------------------------------------------------- strconv
\* A string is a sequence of characters; the decimal digits in order.
Digits == << "0", "1", "2", "3", "4", "5", "6", "7", "8", "9" >>
IsDigit(c) == \E d \in 1 .. Len(Digits) : Digits[d] = c
DigitOf(c) == (CHOOSE d \in 1 .. Len(Digits) : Digits[d] = c) - 1

\* The number a sequence of digits denotes.
RECURSIVE DigitsValue(_)
DigitsValue(s) ==
  IF s = <<>>
    THEN 0
    ELSE DigitsValue(SubSeq(s, 1, Len(s) - 1)) * Len(Digits)
           + DigitOf(s[Len(s)])

\* Mutant: a sign is a syntax error.
AtoiUnsigned(s) ==
  LET syntax == s = <<>> \/ \E i \in 1 .. Len(s) : ~IsDigit(s[i])
      n == IF syntax THEN 0 ELSE DigitsValue(s)
  IN IF syntax \/ n > MaxInt
       THEN [err |-> TRUE, val |-> 0]
       ELSE [err |-> FALSE, val |-> n]

\* strconv.Atoi: an optional sign, then one or more digits; the value must
\* fit an int. err is TRUE for a syntax or a range error.
Atoi(s) ==
  LET signed == s # <<>> /\ s[1] \in {"+", "-"}
      neg == s # <<>> /\ s[1] = "-"
      body == IF signed THEN Tail(s) ELSE s
      syntax == body = <<>> \/ \E i \in 1 .. Len(body) : ~IsDigit(body[i])
      n == IF syntax THEN 0 ELSE DigitsValue(body)
      range == IF neg THEN n > 0 - MinInt ELSE n > MaxInt
  IN IF syntax \/ range
       THEN [err |-> TRUE, val |-> 0]
       ELSE [err |-> FALSE, val |-> IF neg THEN 0 - n ELSE n]

\* The decimal text of an integer, as a client writes it in a URL.
RECURSIVE Decimal(_)
Decimal(n) ==
  IF n < 0
    THEN << "-" >> \o Decimal(0 - n)
    ELSE IF n < Len(Digits)
           THEN << Digits[n + 1] >>
           ELSE Decimal(n \div Len(Digits)) \o << Digits[(n % Len(Digits)) + 1] >>

\* ---------------------------------------------------------------- collection links
\* fmt.Sprintf("%s/todos?page=%d&per_page=%d", baseURL, page, perPage)
PageHref(base, page, perPage) ==
  << base, "/todos?page=", page, "&per_page=", perPage >>

\* totalPages as buildCollectionLinks computes it.
LinkPages(perPage, total) ==
  IF total > 0 THEN Quo(Sub(Add(total, perPage), 1), perPage) ELSE 1

\* Mutant: the next link is offered on the last page too.
buildCollectionLinksOffByOne(base, page, perPage, total) ==
  [Self   |-> Link(PageHref(base, page, perPage), ""),
   First  |-> Link(PageHref(base, 1, perPage), ""),
   Create |-> Link(TodosHref(base), "POST"),
   Last   |-> IF LinkPages(perPage, total) > 1
                THEN Link(PageHref(base, LinkPages(perPage, total), perPage),
                          "")
                ELSE <<>>,
   Next   |-> IF page <= LinkPages(perPage, total)
                THEN Link(PageHref(base, Add(page, 1), perPage), "")
                ELSE <<>>,
   Prev   |-> IF page > 1
                THEN Link(PageHref(base, Sub(page, 1), perPage), "")
                ELSE <<>>]

buildCollectionLinks(base, page, perPage, total) ==
  [Self   |-> Link(PageHref(base, page, perPage), ""),
   First  |-> Link(PageHref(base, 1, perPage), ""),
   Create |-> Link(TodosHref(base), "POST"),
   Last   |-> IF LinkPages(perPage, total) > 1
                THEN Link(PageHref(base, LinkPages(perPage, total), perPage),
                          "")
                ELSE <<>>,
   Next   |-> IF page < LinkPages(perPage, total)
                THEN Link(PageHref(base, Add(page, 1), perPage), "")
                ELSE <<>>,
   Prev   |-> IF page > 1
                THEN Link(PageHref(base, Sub(page, 1), perPage), "")
                ELSE <<>>]

\* ---------------------------------------------------------------- Init
\* Mutant: the counter starts at zero.
NewTodoStoreFromZero ==
  /\ heap = <<>>
  /\ todos = << >>
  /\ nextID = 0
  /\ mu = [writer |-> "", readers |-> {}]

\* NewTodoStore(): an empty map, nextID 1, the mutex free.
NewTodoStore ==
  /\ heap = <<>>
  /\ todos = << >>
  /\ nextID = 1
  /\ mu = [writer |-> "", readers |-> {}]

ProcsIdle ==
  /\ pc = [p \in Procs |-> "idle"]
  /\ op = [p \in Procs |-> ""]
  /\ id = [p \in Procs |-> 0]
  /\ input = [p \in Procs |-> TodoInputZero]
  /\ todo = [p \in Procs |-> NIL]
  /\ exists = [p \in Procs |-> FALSE]
  /\ list = [p \in Procs |-> <<>>]
  /\ copied = [p \in Procs |-> {}]
  /\ resp = [p \in Procs |-> NoResponse]

HistEmpty ==
  /\ created = <<>>
  /\ deleted = {}
  /\ fresh = << >>
  /\ before = [p \in Procs |-> TodoZero]

\* The collection links with every link nil.
NoCollectionLinks ==
  [Self |-> <<>>, First |-> <<>>, Last |-> <<>>, Next |-> <<>>,
   Prev |-> <<>>, Create |-> <<>>]

\* No list response yet.
NoPage ==
  [status |-> 0, page |-> 0, perPage |-> 0, start |-> 0, end |-> 0,
   read |-> <<>>, Total |-> 0, Count |-> 0, Page |-> 0, PerPage |-> 0,
   TotalPages |-> 0, Links |-> NoCollectionLinks]

PageIdle ==
  /\ colArgs = [page |-> 0, perPage |-> 0, total |-> 0]
  /\ colLinks = NoCollectionLinks
  /\ pgReq = [page |-> <<>>, perPage |-> <<>>, total |-> 0]
  /\ pgResp = NoPage

FnIdle ==
  /\ fnTodo = TodoZero
  /\ fnBase = ""
  /\ fnLinks = NoLinks
  /\ fnDone = FALSE
  /\ PageIdle

ReqIdle ==
  /\ req = [p \in Procs |-> NoRequest]
  /\ changed = [p \in Procs |-> FALSE]
  /\ stage = 0
  /\ lifeID = 0
  /\ direct = NoDirect

Init ==
  /\ NewTodoStore
  /\ now = 0
  /\ ProcsIdle
  /\ HistEmpty
  /\ FnIdle
  /\ ReqIdle

\* ---------------------------------------------------------------- sync.RWMutex
\* Mutant: the writers do not wait for each other.
CanLockNoExclusion == TRUE

\* Lock blocks while a writer or any reader holds the mutex.
CanLock == mu.writer = "" /\ mu.readers = {}

\* Mutant: the readers do not wait for the writer.
CanRLockNoExclusion == TRUE

\* RLock blocks while a writer holds the mutex.
CanRLock == mu.writer = ""

\* The methods of the Service interface.
ServiceMethods ==
  {"ListTodos", "GetTodo", "CreateTodo", "UpdateTodo", "CompleteTodo",
   "DeleteTodo"}

\* A caller of the service itself runs the operation "service." and the
\* method's name.
ServiceOp(m) ==
  CASE m = "ListTodos"    -> "service.ListTodos"
    [] m = "GetTodo"      -> "service.GetTodo"
    [] m = "CreateTodo"   -> "service.CreateTodo"
    [] m = "UpdateTodo"   -> "service.UpdateTodo"
    [] m = "CompleteTodo" -> "service.CompleteTodo"
    [] m = "DeleteTodo"   -> "service.DeleteTodo"

\* The service method an operation calls: a handler calls the method of its
\* own name, the list handler calls ListTodos; a direct caller of the store
\* calls none.
Called(o) ==
  IF o = "GetTodos" THEN "ListTodos"
  ELSE IF \E m \in ServiceMethods : o = ServiceOp(m)
    THEN CHOOSE m \in ServiceMethods : o = ServiceOp(m)
  ELSE o

\* Mutant: CompleteTodo is wired to the store's Delete.
DelegateCrossed(m) ==
  CASE m = "ListTodos"    -> "GetAll"
    [] m = "GetTodo"      -> "GetByID"
    [] m = "CreateTodo"   -> "Create"
    [] m = "UpdateTodo"   -> "Update"
    [] m = "CompleteTodo" -> "Delete"
    [] m = "DeleteTodo"   -> "Delete"
    [] OTHER              -> m

\* The service facade: each method returns what the store method it names
\* returns, with the arguments passed through.
Delegate(m) ==
  CASE m = "ListTodos"    -> "GetAll"
    [] m = "GetTodo"      -> "GetByID"
    [] m = "CreateTodo"   -> "Create"
    [] m = "UpdateTodo"   -> "Update"
    [] m = "CompleteTodo" -> "Complete"
    [] m = "DeleteTodo"   -> "Delete"
    [] OTHER              -> m

\* The store method an operation ends in.
Method(o) == Delegate(Called(o))

Handlers ==
  {"GetTodo", "UpdateTodo", "CreateTodo", "CompleteTodo", "DeleteTodo",
   "GetTodos"}
Writers == {"Create", "Update", "Complete", "Delete"}
Readers == {"GetAll", "GetByID"}

\* The first statement of the method's body, run once the lock is held.
Entry(m) ==
  CASE m = "Create"   -> "alloc"
    [] m = "Update"   -> "lookup"
    [] m = "Complete" -> "lookup"
    [] m = "Delete"   -> "remove"
    [] m = "GetAll"   -> "range"
    [] OTHER          -> "get"

\* s.mu.Lock()
Lock(p) ==
  /\ pc[p] = "lock"
  /\ Method(op[p]) \in Writers
  /\ CanLock
  /\ mu' = [mu EXCEPT !.writer = p]
  /\ pc' = [pc EXCEPT ![p] = Entry(Method(op[p]))]
  /\ UNCHANGED << heap, todos, nextID, now, op, id, input, todo, exists,
                  list, copied, resp, histVars, fnVars, reqVars >>

\* s.mu.RLock()
RLock(p) ==
  /\ pc[p] = "lock"
  /\ Method(op[p]) \in Readers
  /\ CanRLock
  /\ mu' = [mu EXCEPT !.readers = @ \cup {p}]
  /\ pc' = [pc EXCEPT ![p] = Entry(Method(op[p]))]
  /\ UNCHANGED << heap, todos, nextID, now, op, id, input, todo, exists,
                  list, copied, resp, histVars, fnVars, reqVars >>

\* The method returns.  A handler goes on with its own code and keeps the
\* results; a direct caller of the store takes the results and is free for
\* its next call.
Returned(p) ==
  IF op[p] \in Handlers
    THEN /\ pc' = [pc EXCEPT ![p] = "check"]
         /\ UNCHANGED << op, id, input, todo, exists, list, before,
                         changed >>
    ELSE /\ pc' = [pc EXCEPT ![p] = "idle"]
         /\ op' = [op EXCEPT ![p] = ""]
         /\ id' = [id EXCEPT ![p] = 0]
         /\ input' = [input EXCEPT ![p] = TodoInputZero]
         /\ todo' = [todo EXCEPT ![p] = NIL]
         /\ exists' = [exists EXCEPT ![p] = FALSE]
         /\ list' = [list EXCEPT ![p] = <<>>]
         /\ before' = [before EXCEPT ![p] = TodoZero]
         /\ changed' = [changed EXCEPT ![p] = FALSE]

\* defer s.mu.Unlock(): runs as the method returns.
Unlock(p) ==
  /\ pc[p] = "unlock"
  /\ Method(op[p]) \in Writers
  /\ mu' = [mu EXCEPT !.writer = ""]
  /\ Returned(p)
  /\ UNCHANGED << heap, todos, nextID, now, copied, resp, created, deleted,
                  fresh, fnVars, req, stage, lifeID, direct >>

\* defer s.mu.RUnlock(): runs as the method returns.
RUnlock(p) ==
  /\ pc[p] = "unlock"
  /\ Method(op[p]) \in Readers
  /\ mu' = [mu EXCEPT !.readers = @ \ {p}]
  /\ Returned(p)
  /\ UNCHANGED << heap, todos, nextID, now, copied, resp, created, deleted,
                  fresh, fnVars, req, stage, lifeID, direct >>

\* ---------------------------------------------------------------- calls
\* A caller starts an operation with the given arguments.
Start(p, o, i, in, at) ==
  /\ pc[p] = "idle"
  /\ pc' = [pc EXCEPT ![p] = at]
  /\ op' = [op EXCEPT ![p] = o]
  /\ id' = [id EXCEPT ![p] = i]
  /\ input' = [input EXCEPT ![p] = in]
  /\ UNCHANGED << storeVars, todo, exists, list, copied, resp, histVars,
                  fnVars, reqVars >>

\* Creates that are started and have not allocated their record yet.
PendingCreates ==
  Cardinality({ q \in Procs :
                  Method(op[q]) = "Create" /\ pc[q] \in {"lock", "alloc"} })

CallGetAll(p) == Start(p, "GetAll", 0, TodoInputZero, "lock")

CallGetByID(p) == \E i \in IDs : Start(p, "GetByID", i, TodoInputZero, "lock")

CallCreate(p) ==
  /\ Len(heap) + PendingCreates < MaxID
  /\ \E in \in Inputs : Start(p, "Create", 0, in, "lock")

CallUpdate(p) ==
  \E i \in IDs, in \in Inputs : Start(p, "Update", i, in, "lock")

CallComplete(p) ==
  \E i \in IDs : Start(p, "Complete", i, TodoInputZero, "lock")

CallDelete(p) == \E i \in IDs : Start(p, "Delete", i, TodoInputZero, "lock")

\* ---------------------------------------------------------------- TodoStore
\* GetAll: the range loop appends every record's pointer, in map order.
GetAll(p) ==
  /\ pc[p] = "range"
  /\ \E s \in Orders(Range(todos)) : list' = [list EXCEPT ![p] = s]
  /\ pc' = [pc EXCEPT ![p] = "unlock"]
  /\ UNCHANGED << storeVars, op, id, input, todo, exists, copied, resp,
                  histVars, fnVars, reqVars >>

\* GetByID: todo, exists := s.todos[id]
GetByID(p) ==
  /\ pc[p] = "get"
  /\ exists' = [exists EXCEPT ![p] = id[p] \in DOMAIN todos]
  /\ todo' = [todo EXCEPT ![p] =
                IF id[p] \in DOMAIN todos THEN todos[id[p]] ELSE NIL]
  /\ pc' = [pc EXCEPT ![p] = "unlock"]
  /\ UNCHANGED << storeVars, op, id, input, list, copied, resp, histVars,
                  fnVars, reqVars >>

\* Mutant: the description lands in the title.
NewTodoSwapped(n, in, t) ==
  [ID |-> n, Title |-> in.Description, Description |-> in.Description,
   Completed |-> FALSE, CreatedAt |-> t, Links |-> NoLinks]

\* The record Create builds: &Todo{ID: s.nextID, Title: input.Title, ...}
NewTodo(n, in, t) ==
  [ID |-> n, Title |-> in.Title, Description |-> in.Description,
   Completed |-> FALSE, CreatedAt |-> t, Links |-> NoLinks]

\* Create, first half: allocate the record, reading s.nextID and the clock.
CreateAlloc(p) ==
  /\ pc[p] = "alloc"
  /\ heap' = Append(heap, NewTodo(nextID, input[p], now))
  /\ now' = now + 1
  /\ todo' = [todo EXCEPT ![p] = Len(heap) + 1]
  /\ pc' = [pc EXCEPT ![p] = "store"]
  /\ UNCHANGED << todos, nextID, mu, op, id, input, exists, list, copied,
                  resp, histVars, fnVars, reqVars >>

\* Mutant: the counter is not advanced.
NextAfterCreateStuck == nextID

\* The counter after a Create: s.nextID++
NextAfterCreate == nextID + 1

\* Create, second half: s.todos[s.nextID] = todo; s.nextID++
CreateStore(p) ==
  /\ pc[p] = "store"
  /\ todos' = Put(todos, nextID, todo[p])
  /\ nextID' = NextAfterCreate
  /\ created' = Append(created, todo[p])
  /\ fresh' = Put(fresh, heap[todo[p]].ID, input[p])
  /\ pc' = [pc EXCEPT ![p] = "unlock"]
  /\ changed' = [changed EXCEPT ![p] = TRUE]
  /\ UNCHANGED << heap, mu, now, op, id, input, todo, exists, list, copied,
                  resp, deleted, before, fnVars, req, stage, lifeID, direct >>

\* Update and Complete: todo, exists := s.todos[id]; if !exists return nil, false
Lookup(p) ==
  /\ pc[p] = "lookup"
  /\ exists' = [exists EXCEPT ![p] = id[p] \in DOMAIN todos]
  /\ todo' = [todo EXCEPT ![p] =
                IF id[p] \in DOMAIN todos THEN todos[id[p]] ELSE NIL]
  /\ pc' = [pc EXCEPT ![p] =
              IF id[p] \notin DOMAIN todos THEN "unlock"
              ELSE IF Method(op[p]) = "Update" THEN "title" ELSE "set"]
  /\ before' = [before EXCEPT ![p] =
                  IF id[p] \in DOMAIN todos THEN heap[todos[id[p]]]
                  ELSE TodoZero]
  /\ UNCHANGED << storeVars, op, id, input, list, copied, resp, created,
                  deleted, fresh, fnVars, reqVars >>

\* Mutant: Update rebuilds the record instead of assigning one field.
WithTitleRebuilt(t, in) ==
  [t EXCEPT !.Title = in.Title, !.CreatedAt = 0]

\* The record after Update's first assignment.
WithTitle(t, in) == [t EXCEPT !.Title = in.Title]

\* Update: todo.Title = input.Title
UpdateTitle(p) ==
  /\ pc[p] = "title"
  /\ heap' = [heap EXCEPT ![todo[p]] = WithTitle(@, input[p])]
  /\ fresh' = Drop(fresh, id[p])
  /\ pc' = [pc EXCEPT ![p] = "desc"]
  /\ changed' = [changed EXCEPT ![p] = TRUE]
  /\ UNCHANGED << todos, nextID, mu, now, op, id, input, todo, exists, list,
                  copied, resp, created, deleted, before, fnVars, req, stage, lifeID, direct >>

\* Mutant: Update clears the completed flag.
WithDescriptionReopened(t, in) ==
  [t EXCEPT !.Description = in.Description, !.Completed = FALSE]

\* The record after Update's second assignment.
WithDescription(t, in) == [t EXCEPT !.Description = in.Description]

\* Update: todo.Description = input.Description
UpdateDescription(p) ==
  /\ pc[p] = "desc"
  /\ heap' = [heap EXCEPT ![todo[p]] = WithDescription(@, input[p])]
  /\ pc' = [pc EXCEPT ![p] = "unlock"]
  /\ changed' = [changed EXCEPT ![p] = TRUE]
  /\ UNCHANGED << todos, nextID, mu, now, op, id, input, todo, exists, list,
                  copied, resp, histVars, fnVars, req, stage, lifeID, direct >>

\* Mutant: Complete toggles the flag.
CompletedToggled(t) == [t EXCEPT !.Completed = ~@]

\* The record after Complete's assignment.
Completed(t) == [t EXCEPT !.Completed = TRUE]

\* Complete: todo.Completed = true
Complete(p) ==
  /\ pc[p] = "set"
  /\ heap' = [heap EXCEPT ![todo[p]] = Completed(@)]
  /\ fresh' = Drop(fresh, id[p])
  /\ pc' = [pc EXCEPT ![p] = "unlock"]
  /\ changed' = [changed EXCEPT ![p] = TRUE]
  /\ UNCHANGED << todos, nextID, mu, now, op, id, input, todo, exists, list,
                  copied, resp, created, deleted, before, fnVars, req, stage, lifeID, direct >>

\* Mutant: Delete hands the id back to the counter.
NextAfterDeleteReclaimed == nextID - 1

\* The counter after a Delete: Delete does not touch it.
NextAfterDelete == nextID

\* Mutant: Delete reports success without looking the id up.
DeleteUnchecked(p) ==
  /\ pc[p] = "remove"
  /\ exists' = [exists EXCEPT ![p] = TRUE]
  /\ todos' = Drop(todos, id[p])
  /\ nextID' = nextID
  /\ deleted' = deleted \cup {id[p]}
  /\ fresh' = Drop(fresh, id[p])
  /\ pc' = [pc EXCEPT ![p] = "unlock"]
  /\ changed' = [changed EXCEPT ![p] = TRUE]
  /\ UNCHANGED << heap, mu, now, op, id, input, todo, list, copied, resp,
                  created, before, fnVars, req, stage, lifeID, direct >>

\* Delete: _, exists := s.todos[id]; if exists, delete(s.todos, id)
Delete(p) ==
  /\ pc[p] = "remove"
  /\ exists' = [exists EXCEPT ![p] = id[p] \in DOMAIN todos]
  /\ IF id[p] \in DOMAIN todos
       THEN /\ todos' = Drop(todos, id[p])
            /\ nextID' = NextAfterDelete
            /\ deleted' = deleted \cup {id[p]}
            /\ fresh' = Drop(fresh, id[p])
       ELSE UNCHANGED << todos, nextID, deleted, fresh >>
  /\ pc' = [pc EXCEPT ![p] = "unlock"]
  /\ changed' = [changed EXCEPT ![p] = @ \/ id[p] \in DOMAIN todos]
  /\ UNCHANGED << heap, mu, now, op, id, input, todo, list, copied, resp,
                  created, before, fnVars, req, stage, lifeID, direct >>

\* ---------------------------------------------------------------- Spec
\* The store of NewTodoStore and its direct callers.
Next ==
  \/ \E p \in Procs : CallGetAll(p)
  \/ \E p \in Procs : CallGetByID(p)
  \/ \E p \in Procs : CallCreate(p)
  \/ \E p \in Procs : CallUpdate(p)
  \/ \E p \in Procs : CallComplete(p)
  \/ \E p \in Procs : CallDelete(p)
  \/ \E p \in Procs : Lock(p)
  \/ \E p \in Procs : RLock(p)
  \/ \E p \in Procs : GetAll(p)
  \/ \E p \in Procs : GetByID(p)
  \/ \E p \in Procs : CreateAlloc(p)
  \/ \E p \in Procs : CreateStore(p)
  \/ \E p \in Procs : Lookup(p)
  \/ \E p \in Procs : UpdateTitle(p)
  \/ \E p \in Procs : UpdateDescription(p)
  \/ \E p \in Procs : Complete(p)
  \/ \E p \in Procs : Delete(p)
  \/ \E p \in Procs : Unlock(p)
  \/ \E p \in Procs : RUnlock(p)

Spec == Init /\ [][Next]_vars

\* ---------------------------------------------------------------- NewRouter
\* The base URL the server is built with.
baseURL == "http://localhost:8000"

\* The sample data NewRouter creates.
Seeds ==
  << [Title |-> "Learn Go",
      Description |-> "Master the Go programming language"],
     [Title |-> "Build REST API",
      Description |-> "Create a HATEOAS-compliant REST API"],
     [Title |-> "Write Tests",
      Description |-> "Add comprehensive test coverage"] >>

\* The store after NewRouter's three CreateTodo calls on a new store.
NewRouter ==
  /\ heap = [k \in 1 .. Len(Seeds) |-> NewTodo(k, Seeds[k], k - 1)]
  /\ todos = [k \in 1 .. Len(Seeds) |-> k]
  /\ nextID = Len(Seeds) + 1
  /\ now = Len(Seeds)
  /\ mu = [writer |-> "", readers |-> {}]
  /\ created = [k \in 1 .. Len(Seeds) |-> k]
  /\ deleted = {}
  /\ fresh = [k \in 1 .. Len(Seeds) |-> Seeds[k]]
  /\ before = [p \in Procs |-> TodoZero]

\* The ids the requests name: a seeded record and an id that is not stored.
ReqIDs == {1, Len(Seeds) + 1}

\* The bodies of the PUT requests.
Bodies == Inputs \cup { [Title |-> "B", Description |-> "b"] }

InitAPI ==
  /\ NewRouter
  /\ ProcsIdle
  /\ FnIdle
  /\ ReqIdle

\* A handler sends its response; the goroutine serves the next request.
Return(p) ==
  /\ pc[p] = "done"
  /\ pc' = [pc EXCEPT ![p] = "idle"]
  /\ op' = [op EXCEPT ![p] = ""]
  /\ id' = [id EXCEPT ![p] = 0]
  /\ input' = [input EXCEPT ![p] = TodoInputZero]
  /\ todo' = [todo EXCEPT ![p] = NIL]
  /\ exists' = [exists EXCEPT ![p] = FALSE]
  /\ list' = [list EXCEPT ![p] = <<>>]
  /\ copied' = [copied EXCEPT ![p] = {}]
  /\ resp' = [resp EXCEPT ![p] = NoResponse]
  /\ before' = [before EXCEPT ![p] = TodoZero]
  /\ req' = [req EXCEPT ![p] = NoRequest]
  /\ changed' = [changed EXCEPT ![p] = FALSE]
  /\ UNCHANGED << storeVars, created, deleted, fresh, fnVars, stage, lifeID, direct >>

\* api.sendError(w, statusCode, error, message)
sendError(p, statusCode, error) ==
  /\ resp' = [resp EXCEPT ![p].status = statusCode, ![p].error = error]
  /\ pc' = [pc EXCEPT ![p] = "done"]

\* The fields of Todo, in the order the struct declares them.
FieldOrder ==
  << "ID", "Title", "Description", "Completed", "CreatedAt", "Links" >>
Fields == Range(FieldOrder)
\* ID and CreatedAt are written before the record is stored and never again.
Immutable == {"ID", "CreatedAt"}

\* Reading the fields F of *todo into the response, each as it is now.
ReadFields(p, F) ==
  /\ resp' = [resp EXCEPT ![p].body =
                [f \in Fields |-> IF f \in F THEN heap[todo[p]][f] ELSE @[f]]]
  /\ copied' = [copied EXCEPT ![p] = @ \cup F]

\* ---------------------------------------------------------------- TodoAPI.GetTodo
\* GET /todos/{id}: todo, exists := api.service.GetTodo(id)
CallGetTodo(p) ==
  \E i \in ReqIDs : Start(p, "GetTodo", i, TodoInputZero, "lock")

\* if !exists { api.sendError(w, http.StatusNotFound, ...); return }
GetTodoCheck(p) ==
  /\ pc[p] = "check"
  /\ op[p] = "GetTodo"
  /\ IF exists[p]
       THEN /\ pc' = [pc EXCEPT ![p] = "copy"]
            /\ resp' = resp
       ELSE sendError(p, 404, "Todo not found")
  /\ UNCHANGED << storeVars, op, id, input, todo, exists, list, copied,
                  histVars, fnVars, reqVars >>

\* The chunks in which the struct copy may read the fields not yet read: any
\* non-empty set of them (the immutable fields go with the first chunk).
CopyChunks(done) ==
  { F \in SUBSET (Fields \ done) :
      /\ F \ Immutable # {}
      /\ Immutable \subseteq done \cup F }

\* todoResponse := *todo.  The copy runs after GetByID released the lock, so
\* it is not atomic with respect to the writers: it reads the fields in some
\* order, a few at a time, each field as it is when it is read.
GetTodoCopy(p) ==
  /\ pc[p] = "copy"
  /\ \E F \in CopyChunks(copied[p]) :
       /\ ReadFields(p, F)
       /\ pc' = [pc EXCEPT ![p] =
                   IF copied[p] \cup F = Fields THEN "links" ELSE "copy"]
  /\ UNCHANGED << storeVars, op, id, input, todo, exists, list, histVars,
                  fnVars, reqVars >>

\* todoResponse.Links = buildTodoLinks(todo, api.baseURL), then the response
\* is encoded with status 200.  buildTodoLinks is handed the pointer, not the
\* copy.
GetTodoLinks(p) ==
  /\ pc[p] = "links"
  /\ resp' = [resp EXCEPT ![p].body.Links =
                            buildTodoLinks(heap[todo[p]], baseURL),
                          ![p].status = 200]
  /\ pc' = [pc EXCEPT ![p] = "done"]
  /\ UNCHANGED << storeVars, op, id, input, todo, exists, list, copied,
                  histVars, fnVars, reqVars >>

\* ---------------------------------------------------------------- TodoAPI.UpdateTodo
\* PUT /todos/{id} with a decoded body.
CallUpdateTodo(p) ==
  \E i \in ReqIDs, in \in Bodies : Start(p, "UpdateTodo", i, in, "validate")

\* if input.Title == "" { api.sendError(w, http.StatusBadRequest, ...); return }
\* todo, exists := api.service.UpdateTodo(id, input)
UpdateTodoValidate(p) ==
  /\ pc[p] = "validate"
  /\ IF input[p].Title = ""
       THEN sendError(p, 400, "Validation error")
       ELSE /\ pc' = [pc EXCEPT ![p] = "lock"]
            /\ resp' = resp
  /\ UNCHANGED << storeVars, op, id, input, todo, exists, list, copied,
                  histVars, fnVars, reqVars >>

\* if !exists { api.sendError(w, http.StatusNotFound, ...); return }
UpdateTodoCheck(p) ==
  /\ pc[p] = "check"
  /\ op[p] = "UpdateTodo"
  /\ IF exists[p]
       THEN /\ pc' = [pc EXCEPT ![p] = "setlinks"]
            /\ resp' = resp
       ELSE sendError(p, 404, "Todo not found")
  /\ UNCHANGED << storeVars, op, id, input, todo, exists, list, copied,
                  histVars, fnVars, reqVars >>

\* todo.Links = buildTodoLinks(todo, api.baseURL): written through the
\* pointer into the stored record, after Update released the lock.
UpdateTodoLinks(p) ==
  /\ pc[p] = "setlinks"
  /\ heap' = [heap EXCEPT ![todo[p]].Links =
                buildTodoLinks(heap[todo[p]], baseURL)]
  /\ pc' = [pc EXCEPT ![p] = "encode"]
  /\ changed' = [changed EXCEPT ![p] = TRUE]
  /\ UNCHANGED << todos, nextID, mu, now, op, id, input, todo, exists, list,
                  copied, resp, histVars, fnVars, req, stage, lifeID, direct >>

\* The next fields the encoder may read in one go: it walks the struct in
\* declaration order.
EncodeChunks(done) ==
  { F \in SUBSET (Fields \ done) :
      /\ F \ Immutable # {}
      /\ \E n \in 1 .. Len(FieldOrder) :
           done \cup F = { FieldOrder[k] : k \in 1 .. n } }

\* json.NewEncoder(w).Encode(todo): reads the stored record field by field,
\* without the lock; the first write sends status 200.
UpdateTodoEncode(p) ==
  /\ pc[p] = "encode"
  /\ \E F \in EncodeChunks(copied[p]) :
       /\ ReadFields(p, F)
       /\ IF copied[p] \cup F = Fields
            THEN /\ pc' = [pc EXCEPT ![p] = "sent"]
            ELSE /\ pc' = pc
  /\ UNCHANGED << storeVars, op, id, input, todo, exists, list, histVars,
                  fnVars, reqVars >>

\* The encoded body is written: status 200, unless WriteHeader set another.
UpdateTodoSend(p) ==
  /\ pc[p] = "sent"
  /\ resp' = [resp EXCEPT ![p].status = IF @ = 0 THEN 200 ELSE @]
  /\ pc' = [pc EXCEPT ![p] = "done"]
  /\ UNCHANGED << storeVars, op, id, input, todo, exists, list, copied,
                  histVars, fnVars, reqVars >>

\* ---------------------------------------------------------------- SpecAPI
\* The store of NewRouter and concurrent requests to its handlers.
NextAPI ==
  \/ \E p \in Procs : CallGetTodo(p)
  \/ \E p \in Procs : CallUpdateTodo(p)
  \/ \E p \in Procs : UpdateTodoValidate(p)
  \/ \E p \in Procs : Lock(p)
  \/ \E p \in Procs : RLock(p)
  \/ \E p \in Procs : GetByID(p)
  \/ \E p \in Procs : Lookup(p)
  \/ \E p \in Procs : UpdateTitle(p)
  \/ \E p \in Procs : UpdateDescription(p)
  \/ \E p \in Procs : Unlock(p)
  \/ \E p \in Procs : RUnlock(p)
  \/ \E p \in Procs : GetTodoCheck(p)
  \/ \E p \in Procs : GetTodoCopy(p)
  \/ \E p \in Procs : GetTodoLinks(p)
  \/ \E p \in Procs : UpdateTodoCheck(p)
  \/ \E p \in Procs : UpdateTodoLinks(p)
  \/ \E p \in Procs : UpdateTodoEncode(p)
  \/ \E p \in Procs : UpdateTodoSend(p)
  \/ \E p \in Procs : Return(p)

SpecAPI == InitAPI /\ [][NextAPI]_vars

\* ---------------------------------------------------------------- requests
\* The id path segments of the requests: a seeded record, zero, a negative
\* number and a segment that is not a number.
IdStrs == {Decimal(1), Decimal(0), Decimal(0 - 1), << "x" >>}

\* The request bodies: one that is not JSON, and the JSON of each input.
ReqBodies == {Body(FALSE, TodoInputZero)} \cup {Body(TRUE, in) : in \in Inputs}

\* Mutant: the handlers accept an empty title.
TitleMissingIgnored(in) == FALSE

\* if input.Title == ""
TitleMissing(in) == in.Title = ""

\* The error of an id path segment, "" when there is none:
\* id, err := strconv.Atoi(idStr); if err != nil { 400 "Invalid todo ID" }
IdError(idStr) == IF Atoi(idStr).err THEN "Invalid todo ID" ELSE ""

\* Mutant: the title is checked before the decoding error.
InputErrorTitleFirst(b) ==
  IF TitleMissing(b.value) THEN "Validation error"
  ELSE IF ~b.ok THEN "Invalid JSON"
  ELSE ""

\* The error of a request body, "" when there is none: the decoding error
\* first, then the empty title.
InputError(b) ==
  IF ~b.ok THEN "Invalid JSON"
  ELSE IF TitleMissing(b.value) THEN "Validation error"
  ELSE ""

\* The handler's code before it calls the service: it reads the request,
\* answers 400 with the error when there is one and goes on to the service
\* call otherwise.
Serve(p, o, r, i, in, error) ==
  /\ pc[p] = "idle"
  /\ op' = [op EXCEPT ![p] = o]
  /\ req' = [req EXCEPT ![p] = r]
  /\ id' = [id EXCEPT ![p] = i]
  /\ input' = [input EXCEPT ![p] = in]
  /\ IF error # ""
       THEN sendError(p, 400, error)
       ELSE /\ pc' = [pc EXCEPT ![p] = "lock"]
            /\ resp' = resp
  /\ UNCHANGED << storeVars, todo, exists, list, copied, histVars, fnVars,
                  changed, stage, lifeID, direct >>

\* GetTodo, CompleteTodo and DeleteTodo with an id path segment:
\* id, err := strconv.Atoi(chi.URLParam(r, "id")); if err != nil { 400 }
ServeID(p, o, idStr) ==
  Serve(p, o, [idStr |-> idStr, body |-> Body(FALSE, TodoInputZero)],
        Atoi(idStr).val, TodoInputZero, IdError(idStr))

\* GET /todos/{id}
RequestGetTodo(p) == \E idStr \in IdStrs : ServeID(p, "GetTodo", idStr)

\* PATCH /todos/{id}/complete
RequestCompleteTodo(p) ==
  \E idStr \in IdStrs : ServeID(p, "CompleteTodo", idStr)

\* DELETE /todos/{id}
RequestDeleteTodo(p) == \E idStr \in IdStrs : ServeID(p, "DeleteTodo", idStr)

\* PUT /todos/{id}: the id is parsed, then the body is decoded, then the
\* title is checked; each failure answers 400.
RequestUpdateTodo(p) ==
  \E idStr \in IdStrs, b \in ReqBodies :
    LET decoded == ~Atoi(idStr).err /\ b.ok IN
      Serve(p, "UpdateTodo", [idStr |-> idStr, body |-> b],
            Atoi(idStr).val,
            IF decoded THEN b.value ELSE TodoInputZero,
            IF IdError(idStr) # "" THEN IdError(idStr) ELSE InputError(b))

\* POST /todos: the body is decoded, then the title is checked; each failure
\* answers 400.
RequestCreateTodo(p) ==
  /\ Len(heap) + PendingCreates < Len(Seeds) + MaxPosts
  /\ \E b \in ReqBodies :
       Serve(p, "CreateTodo", [idStr |-> <<>>, body |-> b], 0,
             IF b.ok THEN b.value ELSE TodoInputZero, InputError(b))

\* ---------------------------------------------------------------- TodoAPI.CreateTodo
\* Mutant: the handler does not call WriteHeader.
CreateTodoLinksNoHeader(p) ==
  /\ pc[p] = "check"
  /\ op[p] = "CreateTodo"
  /\ heap' = [heap EXCEPT ![todo[p]].Links =
                buildTodoLinks(heap[todo[p]], baseURL)]
  /\ resp' = [resp EXCEPT
                ![p].location = TodoHref(baseURL, heap[todo[p]].ID)]
  /\ pc' = [pc EXCEPT ![p] = "encode"]
  /\ changed' = [changed EXCEPT ![p] = TRUE]
  /\ UNCHANGED << todos, nextID, mu, now, op, id, input, todo, exists, list,
                  copied, histVars, fnVars, req, stage, lifeID, direct >>

\* todo := api.service.CreateTodo(input) has returned.
\* todo.Links = buildTodoLinks(todo, api.baseURL): written through the
\* pointer into the stored record; then the Location header is set and
\* WriteHeader(http.StatusCreated) is called.
CreateTodoLinks(p) ==
  /\ pc[p] = "check"
  /\ op[p] = "CreateTodo"
  /\ heap' = [heap EXCEPT ![todo[p]].Links =
                buildTodoLinks(heap[todo[p]], baseURL)]
  /\ resp' = [resp EXCEPT ![p].status = 201,
                          ![p].location = TodoHref(baseURL, heap[todo[p]].ID)]
  /\ pc' = [pc EXCEPT ![p] = "encode"]
  /\ changed' = [changed EXCEPT ![p] = TRUE]
  /\ UNCHANGED << todos, nextID, mu, now, op, id, input, todo, exists, list,
                  copied, histVars, fnVars, req, stage, lifeID, direct >>

\* ---------------------------------------------------------------- TodoAPI.CompleteTodo
\* todo, exists := api.service.CompleteTodo(id) has returned.
\* if !exists { api.sendError(w, http.StatusNotFound, ...); return }
CompleteTodoCheck(p) ==
  /\ pc[p] = "check"
  /\ op[p] = "CompleteTodo"
  /\ IF exists[p]
       THEN /\ pc' = [pc EXCEPT ![p] = "setlinks"]
            /\ resp' = resp
       ELSE sendError(p, 404, "Todo not found")
  /\ UNCHANGED << storeVars, op, id, input, todo, exists, list, copied,
                  histVars, fnVars, reqVars >>

\* ---------------------------------------------------------------- TodoAPI.DeleteTodo
\* deleted := api.service.DeleteTodo(id) has returned.
\* if !deleted { 404 } else w.WriteHeader(http.StatusNoContent)
DeleteTodoCheck(p) ==
  /\ pc[p] = "check"
  /\ op[p] = "DeleteTodo"
  /\ IF exists[p]
       THEN /\ resp' = [resp EXCEPT ![p].status = 204]
            /\ pc' = [pc EXCEPT ![p] = "done"]
       ELSE sendError(p, 404, "Todo not found")
  /\ UNCHANGED << storeVars, op, id, input, todo, exists, list, copied,
                  histVars, fnVars, reqVars >>

\* ---------------------------------------------------------------- SpecRouter
\* The router of NewRouter serving concurrent requests on the todo routes.
NextRouter ==
  \/ \E p \in Procs : RequestCreateTodo(p)
  \/ \E p \in Procs : RequestGetTodo(p)
  \/ \E p \in Procs : RequestUpdateTodo(p)
  \/ \E p \in Procs : RequestCompleteTodo(p)
  \/ \E p \in Procs : RequestDeleteTodo(p)
  \/ \E p \in Procs : Lock(p)
  \/ \E p \in Procs : RLock(p)
  \/ \E p \in Procs : CreateAlloc(p)
  \/ \E p \in Procs : CreateStore(p)
  \/ \E p \in Procs : GetByID(p)
  \/ \E p \in Procs : Lookup(p)
  \/ \E p \in Procs : UpdateTitle(p)
  \/ \E p \in Procs : UpdateDescription(p)
  \/ \E p \in Procs : Complete(p)
  \/ \E p \in Procs : Delete(p)
  \/ \E p \in Procs : Unlock(p)
  \/ \E p \in Procs : RUnlock(p)
  \/ \E p \in Procs : CreateTodoLinks(p)
  \/ \E p \in Procs : GetTodoCheck(p)
  \/ \E p \in Procs : GetTodoCopy(p)
  \/ \E p \in Procs : GetTodoLinks(p)
  \/ \E p \in Procs : UpdateTodoCheck(p)
  \/ \E p \in Procs : CompleteTodoCheck(p)
  \/ \E p \in Procs : DeleteTodoCheck(p)
  \/ \E p \in Procs : UpdateTodoLinks(p)
  \/ \E p \in Procs : UpdateTodoEncode(p)
  \/ \E p \in Procs : UpdateTodoSend(p)
  \/ \E p \in Procs : Return(p)

SpecRouter == InitAPI /\ [][NextRouter]_vars

\* ---------------------------------------------------------------- SpecLife
\* One client takes a record through its life, one request after the other,
\* while the other goroutine serves requests that do not name that record.
Client == "g1"
Others == Procs \ {Client}

\* The client's requests, in order.
Script == << "CreateTodo", "GetTodo", "CompleteTodo", "DeleteTodo", "GetTodo" >>

\* The body of the client's POST.
LifeInput == [Title |-> "A", Description |-> "a"]

\* The client sends its next request: the POST first, then the requests on
\* the id its POST was answered with.
LifeRequest ==
  /\ stage < Len(Script)
  /\ IF stage = 0
       THEN Serve(Client, Script[stage + 1],
                  [idStr |-> <<>>, body |-> Body(TRUE, LifeInput)], 0,
                  LifeInput, InputError(Body(TRUE, LifeInput)))
       ELSE ServeID(Client, Script[stage + 1], Decimal(lifeID))

\* The client has its response; from the answer to its POST it takes the id
\* the Location header points at.
LifeReturn ==
  /\ pc[Client] = "done"
  /\ stage' = stage + 1
  /\ lifeID' = IF stage = 0 THEN resp[Client].location[3] ELSE lifeID
  /\ pc' = [pc EXCEPT ![Client] = "idle"]
  /\ op' = [op EXCEPT ![Client] = ""]
  /\ id' = [id EXCEPT ![Client] = 0]
  /\ input' = [input EXCEPT ![Client] = TodoInputZero]
  /\ todo' = [todo EXCEPT ![Client] = NIL]
  /\ exists' = [exists EXCEPT ![Client] = FALSE]
  /\ list' = [list EXCEPT ![Client] = <<>>]
  /\ copied' = [copied EXCEPT ![Client] = {}]
  /\ resp' = [resp EXCEPT ![Client] = NoResponse]
  /\ before' = [before EXCEPT ![Client] = TodoZero]
  /\ req' = [req EXCEPT ![Client] = NoRequest]
  /\ changed' = [changed EXCEPT ![Client] = FALSE]
  /\ UNCHANGED << storeVars, created, deleted, fresh, fnVars, direct >>

NextLife ==
  \/ LifeRequest
  \/ LifeReturn
  \/ \E p \in Others : RequestCreateTodo(p)
  \/ \E p \in Others : RequestGetTodo(p)
  \/ \E p \in Others : RequestUpdateTodo(p)
  \/ \E p \in Others : RequestCompleteTodo(p)
  \/ \E p \in Others : RequestDeleteTodo(p)
  \/ \E p \in Others : Return(p)
  \/ \E p \in Procs : Lock(p)
  \/ \E p \in Procs : RLock(p)
  \/ \E p \in Procs : CreateAlloc(p)
  \/ \E p \in Procs : CreateStore(p)
  \/ \E p \in Procs : GetByID(p)
  \/ \E p \in Procs : Lookup(p)
  \/ \E p \in Procs : UpdateTitle(p)
  \/ \E p \in Procs : UpdateDescription(p)
  \/ \E p \in Procs : Complete(p)
  \/ \E p \in Procs : Delete(p)
  \/ \E p \in Procs : Unlock(p)
  \/ \E p \in Procs : RUnlock(p)
  \/ \E p \in Procs : CreateTodoLinks(p)
  \/ \E p \in Procs : GetTodoCheck(p)
  \/ \E p \in Procs : GetTodoCopy(p)
  \/ \E p \in Procs : GetTodoLinks(p)
  \/ \E p \in Procs : UpdateTodoCheck(p)
  \/ \E p \in Procs : CompleteTodoCheck(p)
  \/ \E p \in Procs : DeleteTodoCheck(p)
  \/ \E p \in Procs : UpdateTodoLinks(p)
  \/ \E p \in Procs : UpdateTodoEncode(p)
  \/ \E p \in Procs : UpdateTodoSend(p)

SpecLife == InitAPI /\ [][NextLife]_vars

\* ---------------------------------------------------------------- SpecBoot
\* NewRouter run statement by statement: a new store, then the three
\* CreateTodo calls on the main goroutine, then the router serves requests.
Main == "g1"

\* NewRouter has returned: the seeds are created and the main goroutine is
\* back from the last call.
Booted == Len(created) >= Len(Seeds) /\ op[Main] # "Create"

InitBoot ==
  /\ NewTodoStore
  /\ now = 0
  /\ ProcsIdle
  /\ HistEmpty
  /\ FnIdle
  /\ ReqIdle

\* service.CreateTodo(TodoInput{...}): the next seed.
Seed ==
  /\ Len(created) < Len(Seeds)
  /\ Start(Main, "Create", 0, Seeds[Len(created) + 1], "lock")

\* The handlers are reachable once NewRouter has returned.
ServeCreateTodo(p) == Booted /\ RequestCreateTodo(p)
ServeGetTodo(p) == Booted /\ RequestGetTodo(p)

NextBoot ==
  \/ Seed
  \/ \E p \in Procs : ServeCreateTodo(p)
  \/ \E p \in Procs : ServeGetTodo(p)
  \/ \E p \in Procs : Lock(p)
  \/ \E p \in Procs : RLock(p)
  \/ \E p \in Procs : CreateAlloc(p)
  \/ \E p \in Procs : CreateStore(p)
  \/ \E p \in Procs : GetByID(p)
  \/ \E p \in Procs : Unlock(p)
  \/ \E p \in Procs : RUnlock(p)
  \/ \E p \in Procs : CreateTodoLinks(p)
  \/ \E p \in Procs : GetTodoCheck(p)
  \/ \E p \in Procs : GetTodoCopy(p)
  \/ \E p \in Procs : GetTodoLinks(p)
  \/ \E p \in Procs : UpdateTodoEncode(p)
  \/ \E p \in Procs : UpdateTodoSend(p)
  \/ \E p \in Procs : Return(p)

SpecBoot == InitBoot /\ [][NextBoot]_vars

\* ---------------------------------------------------------------- link builder
\* The todos handed to buildTodoLinks.
FnTodos ==
  { [ID |-> n, Title |-> in.Title, Description |-> in.Description,
     Completed |-> c, CreatedAt |-> t, Links |-> NoLinks] :
      n \in 0 .. (MaxID + 1), in \in Inputs, c \in BOOLEAN,
      t \in 0 .. MaxID }

InitLinks ==
  /\ NewTodoStore
  /\ now = 0
  /\ ProcsIdle
  /\ HistEmpty
  /\ fnTodo \in FnTodos
  /\ fnBase \in BaseURLs
  /\ fnLinks = NoLinks
  /\ fnDone = FALSE
  /\ PageIdle
  /\ ReqIdle

ApplyBuildTodoLinks ==
  /\ ~fnDone
  /\ fnLinks' = buildTodoLinks(fnTodo, fnBase)
  /\ fnDone' = TRUE
  /\ UNCHANGED << storeVars, procVars, histVars, fnTodo, fnBase, colArgs,
                  colLinks, pgReq, pgResp, reqVars >>

NextLinks == ApplyBuildTodoLinks

SpecLinks == InitLinks /\ [][NextLinks]_vars

\* ---------------------------------------------------------------- SpecColl
\* The arguments handed to buildCollectionLinks: pages from the first to the
\* largest int, page sizes below, at and far above the handler's limit, and
\* totals a slice can have.
ColPages == {1, 2, 3, 4, 5, MaxInt}
ColPerPages == {1, 2, 10, 100, MaxInt}
ColTotals == {0, 1, 2, 10, 35}

InitColl ==
  /\ NewTodoStore
  /\ now = 0
  /\ ProcsIdle
  /\ HistEmpty
  /\ ReqIdle
  /\ fnTodo = TodoZero
  /\ fnLinks = NoLinks
  /\ fnBase \in BaseURLs
  /\ fnDone = FALSE
  /\ colArgs \in [page : ColPages, perPage : ColPerPages, total : ColTotals]
  /\ colLinks = NoCollectionLinks
  /\ pgReq = [page |-> <<>>, perPage |-> <<>>, total |-> 0]
  /\ pgResp = NoPage

ApplyBuildCollectionLinks ==
  /\ ~fnDone
  /\ colLinks' = buildCollectionLinks(fnBase, colArgs.page, colArgs.perPage,
                                      colArgs.total)
  /\ fnDone' = TRUE
  /\ UNCHANGED << storeVars, procVars, histVars, fnTodo, fnBase, fnLinks,
                  colArgs, pgReq, pgResp, reqVars >>

NextColl == ApplyBuildCollectionLinks

SpecColl == InitColl /\ [][NextColl]_vars

\* ---------------------------------------------------------------- GetTodos
\* The handler's defaults and the largest page size it accepts.
DefaultPage == 1
DefaultPerPage == 10
MaxPerPage == 100

\* Mutant: the largest page size is refused.
PerPageOfExclusive(perPageStr) ==
  IF perPageStr # <<>> /\ ~Atoi(perPageStr).err
     /\ Atoi(perPageStr).val > 0 /\ Atoi(perPageStr).val < MaxPerPage
    THEN Atoi(perPageStr).val
    ELSE DefaultPerPage

\* page and perPage after the two if-blocks.
PageOf(pageStr) ==
  IF pageStr # <<>> /\ ~Atoi(pageStr).err /\ Atoi(pageStr).val > 0
    THEN Atoi(pageStr).val
    ELSE DefaultPage

PerPageOf(perPageStr) ==
  IF perPageStr # <<>> /\ ~Atoi(perPageStr).err
     /\ Atoi(perPageStr).val > 0 /\ Atoi(perPageStr).val <= MaxPerPage
    THEN Atoi(perPageStr).val
    ELSE DefaultPerPage

\* The handler on a list of total records: the slice bounds, the indices of
\* allTodos the loop reads up to the first one outside the list (where the
\* handler panics and the Recoverer middleware answers 500), and the
\* collection it encodes otherwise.
GetTodosResponse(base, pageStr, perPageStr, total) ==
  LET page == PageOf(pageStr)
      perPage == PerPageOf(perPageStr)
      start0 == Mul(Sub(page, 1), perPage)
      end0 == Add(start0, perPage)
      start == IF start0 >= total THEN total ELSE start0
      end == IF end0 > total THEN total ELSE end0
      loops == start < total /\ start < end
      panics == loops /\ (start < 0 \/ end > total)
      read == IF ~loops
                THEN <<>>
                ELSE IF start < 0
                       THEN << start >>
                       ELSE [k \in 1 .. (end - start) |-> start + k - 1]
      pages == Quo(Sub(Add(total, perPage), 1), perPage)
  IN IF panics
       THEN [NoPage EXCEPT !.status = 500, !.page = page,
                           !.perPage = perPage, !.start = start,
                           !.end = end, !.read = read]
       ELSE [status |-> 200, page |-> page, perPage |-> perPage,
             start |-> start, end |-> end, read |-> read,
             Total |-> total, Count |-> Len(read), Page |-> page,
             PerPage |-> perPage,
             TotalPages |-> IF pages = 0 THEN 1 ELSE pages,
             Links |-> buildCollectionLinks(base, page, perPage, total)]

\* ---------------------------------------------------------------- SpecList
\* The integers a client writes in the query: around the limits of page and
\* per_page, and large pages up to the largest int.
QueryInts ==
  {0 - 1, 0, 1, 2, 3, 4, 10, 100, 101, 2 ^ (IntBits - 2) + 1, MaxInt}

\* Query values: missing, not a number, a number followed by a letter, a
\* number with a sign, a number one past the largest int, and the integers.
QueryStrs ==
  {<<>>, << "x" >>, << "2", "x" >>, << "+", "2" >>, Decimal(MaxInt + 1)}
    \cup {Decimal(n) : n \in QueryInts}

\* The list has from no record to as many as the router seeds.
ListTotals == 0 .. Len(Seeds)

InitList ==
  /\ NewTodoStore
  /\ now = 0
  /\ ProcsIdle
  /\ HistEmpty
  /\ ReqIdle
  /\ fnTodo = TodoZero
  /\ fnLinks = NoLinks
  /\ fnBase = baseURL
  /\ fnDone = FALSE
  /\ colArgs = [page |-> 0, perPage |-> 0, total |-> 0]
  /\ colLinks = NoCollectionLinks
  /\ pgReq \in [page : QueryStrs, perPage : QueryStrs, total : ListTotals]
  /\ pgResp = NoPage

GetTodos ==
  /\ ~fnDone
  /\ pgResp' = GetTodosResponse(fnBase, pgReq.page, pgReq.perPage,
                                pgReq.total)
  /\ fnDone' = TRUE
  /\ UNCHANGED << storeVars, procVars, histVars, fnTodo, fnBase, fnLinks,
                  colArgs, colLinks, pgReq, reqVars >>

NextList == GetTodos

SpecList == InitList /\ [][NextList]_vars

\* ---------------------------------------------------------------- TodoAPI.GetTodos
\* GET /todos without query parameters: page 1 and the default page size.
RequestGetTodos(p) ==
  Serve(p, "GetTodos", NoRequest, 0, TodoInputZero, "")

\* The bounds of the page the handler slices out of allTodos.
SliceStart(total) ==
  IF Mul(Sub(DefaultPage, 1), DefaultPerPage) >= total
    THEN total
    ELSE Mul(Sub(DefaultPage, 1), DefaultPerPage)
SliceEnd(total) ==
  IF Add(Mul(Sub(DefaultPage, 1), DefaultPerPage), DefaultPerPage) > total
    THEN total
    ELSE Add(Mul(Sub(DefaultPage, 1), DefaultPerPage), DefaultPerPage)

\* allTodos := api.service.ListTodos() has returned.
\* for i := start; i < end; i++: the next entry, or the collection is sent.
GetTodosNext(p) ==
  /\ pc[p] = "check"
  /\ op[p] = "GetTodos"
  /\ LET i == SliceStart(Len(list[p])) + Len(resp[p].todos) + 1 IN
       IF i <= SliceEnd(Len(list[p]))
         THEN /\ todo' = [todo EXCEPT ![p] = list[p][i]]
              /\ pc' = [pc EXCEPT ![p] = "item"]
              /\ resp' = resp
         ELSE /\ resp' = [resp EXCEPT ![p].status = 200]
              /\ pc' = [pc EXCEPT ![p] = "done"]
              /\ todo' = todo
  /\ UNCHANGED << storeVars, op, id, input, exists, list, copied, histVars,
                  fnVars, reqVars >>

\* todo := *allTodos[i]: a struct copy of the stored record, made without
\* the lock, a few fields at a time.
GetTodosCopy(p) ==
  /\ pc[p] = "item"
  /\ \E F \in CopyChunks(copied[p]) :
       /\ ReadFields(p, F)
       /\ pc' = [pc EXCEPT ![p] =
                   IF copied[p] \cup F = Fields THEN "append" ELSE "item"]
  /\ UNCHANGED << storeVars, op, id, input, todo, exists, list, histVars,
                  fnVars, reqVars >>

\* todo.Links = buildTodoLinks(&todo, api.baseURL), from the copy;
\* paginatedTodos = append(paginatedTodos, todo)
GetTodosAppend(p) ==
  /\ pc[p] = "append"
  /\ resp' = [resp EXCEPT
                ![p].todos =
                  Append(@, [resp[p].body EXCEPT
                               !.Links = buildTodoLinks(resp[p].body,
                                                        baseURL)]),
                ![p].body = TodoZero]
  /\ copied' = [copied EXCEPT ![p] = {}]
  /\ pc' = [pc EXCEPT ![p] = "check"]
  /\ UNCHANGED << storeVars, op, id, input, todo, exists, list, histVars,
                  fnVars, reqVars >>

\* ---------------------------------------------------------------- SpecSnap
\* One goroutine lists the records while the other serves requests that
\* change the seeded record 1.
WriteOne(p, o) ==
  Serve(p, o, [idStr |-> Decimal(1), body |-> Body(TRUE, LifeInput)],
        Atoi(Decimal(1)).val,
        IF o = "UpdateTodo" THEN LifeInput ELSE TodoInputZero,
        IdError(Decimal(1)))

NextSnap ==
  \/ RequestGetTodos(Client)
  \/ \E p \in Others : WriteOne(p, "UpdateTodo")
  \/ \E p \in Others : WriteOne(p, "CompleteTodo")
  \/ \E p \in Others : WriteOne(p, "DeleteTodo")
  \/ \E p \in Procs : Lock(p)
  \/ \E p \in Procs : RLock(p)
  \/ \E p \in Procs : GetAll(p)
  \/ \E p \in Procs : Lookup(p)
  \/ \E p \in Procs : UpdateTitle(p)
  \/ \E p \in Procs : UpdateDescription(p)
  \/ \E p \in Procs : Complete(p)
  \/ \E p \in Procs : Delete(p)
  \/ \E p \in Procs : Unlock(p)
  \/ \E p \in Procs : RUnlock(p)
  \/ \E p \in Procs : GetTodosNext(p)
  \/ \E p \in Procs : GetTodosCopy(p)
  \/ \E p \in Procs : GetTodosAppend(p)
  \/ \E p \in Procs : UpdateTodoCheck(p)
  \/ \E p \in Procs : CompleteTodoCheck(p)
  \/ \E p \in Procs : DeleteTodoCheck(p)
  \/ \E p \in Procs : UpdateTodoLinks(p)
  \/ \E p \in Procs : UpdateTodoEncode(p)
  \/ \E p \in Procs : UpdateTodoSend(p)
  \/ \E p \in Procs : Return(p)

SpecSnap == InitAPI /\ [][NextSnap]_vars

\* ---------------------------------------------------------------- SpecPages
\* A client pages through GET /todos, one request after the other with the
\* same per_page, once the other goroutine's POST requests are over; the
\* store is not modified from the first page on.
PagePerPages == {Decimal(1), Decimal(2)}

InitPages ==
  /\ NewRouter
  /\ ProcsIdle
  /\ ReqIdle
  /\ fnTodo = TodoZero
  /\ fnLinks = NoLinks
  /\ fnBase = baseURL
  /\ fnDone = FALSE
  /\ colArgs = [page |-> 0, perPage |-> 0, total |-> 0]
  /\ colLinks = NoCollectionLinks
  /\ pgReq \in [page : {<<>>}, perPage : PagePerPages, total : {0}]
  /\ pgResp = NoPage

\* POST /todos before the client starts.
PostBefore(p) == stage = 0 /\ RequestCreateTodo(p)

\* The records of the page: the entries of allTodos the loop reads, copied,
\* each with the links built from the copy.
PageTodos(allTodos, read) ==
  [k \in 1 .. Len(read) |->
     [heap[allTodos[read[k] + 1]] EXCEPT
        !.Links = buildTodoLinks(heap[allTodos[read[k] + 1]], baseURL)]]

\* GET /todos?page=n&per_page=m for the next page n: the whole handler, on
\* a list the store's GetAll built in some map order.
FetchPage ==
  /\ \A p \in Procs : pc[p] = "idle"
  /\ stage = 0 \/ stage < pgResp.TotalPages
  /\ \E allTodos \in Orders(Range(todos)) :
       LET r == GetTodosResponse(baseURL, Decimal(stage + 1), pgReq.perPage,
                                 Len(allTodos))
       IN /\ pgResp' = r
          /\ resp' = [resp EXCEPT
                        ![Client].todos = @ \o PageTodos(allTodos, r.read)]
  /\ pgReq' = [pgReq EXCEPT !.page = Decimal(stage + 1)]
  /\ stage' = stage + 1
  /\ UNCHANGED << storeVars, pc, op, id, input, todo, exists, list, copied,
                  histVars, fnTodo, fnBase, fnLinks, fnDone, colArgs,
                  colLinks, req, changed, lifeID, direct >>

NextPages ==
  \/ FetchPage
  \/ \E p \in Others : PostBefore(p)
  \/ \E p \in Procs : Lock(p)
  \/ \E p \in Procs : CreateAlloc(p)
  \/ \E p \in Procs : CreateStore(p)
  \/ \E p \in Procs : Unlock(p)
  \/ \E p \in Procs : CreateTodoLinks(p)
  \/ \E p \in Procs : UpdateTodoEncode(p)
  \/ \E p \in Procs : UpdateTodoSend(p)
  \/ \E p \in Procs : Return(p)

SpecPages == InitPages /\ [][NextPages]_vars

\* ---------------------------------------------------------------- Service
\* One caller runs a sequence of calls on the service. Every call is also
\* made, with the same arguments, on a second store that is called directly
\* and runs each method as one step.

\* A store method's results with nothing returned.
Results(st) == [st EXCEPT !.todo = NIL, !.ok = FALSE, !.list = {}]

\* GetAll on the second store.
DirectGetAll(st) == [Results(st) EXCEPT !.list = Range(st.todos)]

\* GetByID on the second store.
DirectGetByID(st, i) ==
  IF i \in DOMAIN st.todos
    THEN [Results(st) EXCEPT !.todo = st.todos[i], !.ok = TRUE]
    ELSE Results(st)

\* Create on the second store.
DirectCreate(st, in, t) ==
  [Results(st) EXCEPT !.heap = Append(@, NewTodo(st.nextID, in, t)),
                      !.todos = Put(@, st.nextID, Len(st.heap) + 1),
                      !.nextID = @ + 1,
                      !.todo = Len(st.heap) + 1]

\* Update on the second store.
DirectUpdate(st, i, in) ==
  IF i \in DOMAIN st.todos
    THEN [Results(st) EXCEPT
            !.heap[st.todos[i]] = WithDescription(WithTitle(@, in), in),
            !.todo = st.todos[i], !.ok = TRUE]
    ELSE Results(st)

\* Complete on the second store.
DirectComplete(st, i) ==
  IF i \in DOMAIN st.todos
    THEN [Results(st) EXCEPT !.heap[st.todos[i]] = Completed(@),
                             !.todo = st.todos[i], !.ok = TRUE]
    ELSE Results(st)

\* Delete on the second store.
DirectDelete(st, i) ==
  IF i \in DOMAIN st.todos
    THEN [Results(st) EXCEPT !.todos = Drop(@, i), !.ok = TRUE]
    ELSE Results(st)

\* The store method m called on the second store.
DirectCall(st, m, i, in, t) ==
  CASE m = "GetAll"   -> DirectGetAll(st)
    [] m = "GetByID"  -> DirectGetByID(st, i)
    [] m = "Create"   -> DirectCreate(st, in, t)
    [] m = "Update"   -> DirectUpdate(st, i, in)
    [] m = "Complete" -> DirectComplete(st, i)
    [] m = "Delete"   -> DirectDelete(st, i)

\* The store method the service's contract pairs with each of its methods.
Counterpart(m) ==
  CASE m = "ListTodos"    -> "GetAll"
    [] m = "GetTodo"      -> "GetByID"
    [] m = "CreateTodo"   -> "Create"
    [] m = "UpdateTodo"   -> "Update"
    [] m = "CompleteTodo" -> "Complete"
    [] m = "DeleteTodo"   -> "Delete"

\* The arguments a method takes; the others are zero.
TakesID(m) == m \in {"GetTodo", "UpdateTodo", "CompleteTodo", "DeleteTodo"}
TakesInput(m) == m \in {"CreateTodo", "UpdateTodo"}

\* Both stores start as NewTodoStore leaves a store.
InitService ==
  /\ NewTodoStore
  /\ now = 0
  /\ ProcsIdle
  /\ HistEmpty
  /\ FnIdle
  /\ req = [p \in Procs |-> NoRequest]
  /\ changed = [p \in Procs |-> FALSE]
  /\ stage = 0
  /\ lifeID = 0
  /\ direct = [NoDirect EXCEPT !.nextID = nextID]

\* The caller calls a service method; the same call goes to the second
\* store's counterpart method.
ServiceCall ==
  \E m \in ServiceMethods, i \in IDs, in \in Inputs :
    /\ pc[Main] = "idle"
    /\ m = "CreateTodo" => Len(heap) < MaxID
    /\ pc' = [pc EXCEPT ![Main] = "lock"]
    /\ op' = [op EXCEPT ![Main] = ServiceOp(m)]
    /\ id' = [id EXCEPT ![Main] = IF TakesID(m) THEN i ELSE 0]
    /\ input' = [input EXCEPT ![Main] =
                   IF TakesInput(m) THEN in ELSE TodoInputZero]
    /\ direct' = DirectCall(direct, Counterpart(m), i, in, now)
    /\ UNCHANGED << storeVars, todo, exists, list, copied, resp, histVars,
                    fnVars, req, changed, stage, lifeID >>

NextService ==
  \/ ServiceCall
  \/ Lock(Main)
  \/ RLock(Main)
  \/ GetAll(Main)
  \/ GetByID(Main)
  \/ CreateAlloc(Main)
  \/ CreateStore(Main)
  \/ Lookup(Main)
  \/ UpdateTitle(Main)
  \/ UpdateDescription(Main)
  \/ Complete(Main)
  \/ Delete(Main)
  \/ Unlock(Main)
  \/ RUnlock(Main)

SpecService == InitService /\ [][NextService]_vars

\* ---------------------------------------------------------------- SpecFair
\* Three goroutines call the store's methods. The mutex is modelled as
\* sync.RWMutex works inside: a writer first takes the writers' mutex w,
\* which announces it to the readers, and then waits for the readers that
\* hold the lock to leave; a reader that arrives while a writer is announced
\* sleeps and is let in when that writer unlocks.
Goroutines == {"g1", "g2", "g3"}

\* The argument the callers pass for a TodoInput.
FairInput == [Title |-> "A", Description |-> "a"]

WithID == {"GetByID", "Update", "Complete", "Delete"}
WithInput == {"Create", "Update"}

\* Creates that are started and have not allocated their record yet.
FairPendingCreates ==
  Cardinality({ q \in Goroutines :
                  op[q] = "Create" /\ pc[q] \in {"lock", "drain", "alloc"} })

InitFair ==
  /\ heap = <<>>
  /\ todos = << >>
  /\ nextID = 1
  /\ mu = [writer |-> "", readers |-> {}, w |-> "", blocked |-> {}]
  /\ now = 0
  /\ pc = [p \in Goroutines |-> "idle"]
  /\ op = [p \in Goroutines |-> ""]
  /\ id = [p \in Goroutines |-> 0]
  /\ input = [p \in Goroutines |-> TodoInputZero]
  /\ todo = [p \in Goroutines |-> NIL]
  /\ exists = [p \in Goroutines |-> FALSE]
  /\ list = [p \in Goroutines |-> <<>>]
  /\ copied = [p \in Goroutines |-> {}]
  /\ resp = [p \in Goroutines |-> NoResponse]
  /\ created = <<>>
  /\ deleted = {}
  /\ fresh = << >>
  /\ before = [p \in Goroutines |-> TodoZero]
  /\ FnIdle
  /\ req = [p \in Goroutines |-> NoRequest]
  /\ changed = [p \in Goroutines |-> FALSE]
  /\ stage = 0
  /\ lifeID = 0
  /\ direct = NoDirect

\* The methods each goroutine calls: one only writes, one only reads, one
\* does both.
Calls(p) ==
  CASE p = "g1" -> Writers
    [] p = "g2" -> Writers \cup Readers
    [] p = "g3" -> Readers

\* The id the callers pass.
FairID == 1

\* A goroutine calls a store method.
Go(p) ==
  \E m \in Calls(p), i \in {FairID} :
    /\ m = "Create" => Len(heap) + FairPendingCreates < MaxID
    /\ Start(p, m, IF m \in WithID THEN i ELSE 0,
             IF m \in WithInput THEN FairInput ELSE TodoInputZero, "lock")

\* rw.w.Lock() blocks while another writer holds w.
CanLockW == mu.w = ""

\* Lock, first half: rw.w.Lock(), then the writer is announced to the
\* readers.
WriterLock(p) ==
  /\ pc[p] = "lock"
  /\ Method(op[p]) \in Writers
  /\ CanLockW
  /\ mu' = [mu EXCEPT !.w = p]
  /\ pc' = [pc EXCEPT ![p] = "drain"]
  /\ UNCHANGED << heap, todos, nextID, now, op, id, input, todo, exists,
                  list, copied, resp, histVars, fnVars, reqVars >>

\* Lock, second half: the writer sleeps until the readers that held the lock
\* when it was announced have left.
WriterAcquire(p) ==
  /\ pc[p] = "drain"
  /\ mu.readers = {}
  /\ mu' = [mu EXCEPT !.writer = p]
  /\ pc' = [pc EXCEPT ![p] = Entry(Method(op[p]))]
  /\ UNCHANGED << heap, todos, nextID, now, op, id, input, todo, exists,
                  list, copied, resp, histVars, fnVars, reqVars >>

\* Mutant: a writer's Unlock leaves the sleeping readers asleep.
AfterUnlockAsleep(m) == [m EXCEPT !.writer = "", !.w = ""]

\* The mutex after a writer's Unlock: the readers that slept hold the lock,
\* and w is free.
AfterUnlock(m) ==
  [m EXCEPT !.writer = "", !.w = "", !.readers = m.blocked, !.blocked = {}]

\* Unlock by a writer.
WriterUnlock(p) ==
  /\ pc[p] = "unlock"
  /\ Method(op[p]) \in Writers
  /\ mu' = AfterUnlock(mu)
  /\ Returned(p)
  /\ UNCHANGED << heap, todos, nextID, now, copied, resp, created, deleted,
                  fresh, fnVars, req, stage, lifeID, direct >>

\* RLock: the reader holds the lock at once unless a writer is announced;
\* then it is counted and sleeps.
ReaderLock(p) ==
  /\ pc[p] = "lock"
  /\ Method(op[p]) \in Readers
  /\ IF mu.w = ""
       THEN /\ mu' = [mu EXCEPT !.readers = @ \cup {p}]
            /\ pc' = [pc EXCEPT ![p] = Entry(Method(op[p]))]
       ELSE /\ mu' = [mu EXCEPT !.blocked = @ \cup {p}]
            /\ pc' = [pc EXCEPT ![p] = "sleep"]
  /\ UNCHANGED << heap, todos, nextID, now, op, id, input, todo, exists,
                  list, copied, resp, histVars, fnVars, reqVars >>

\* RLock returns in a reader the writer's Unlock has let in.
ReaderWake(p) ==
  /\ pc[p] = "sleep"
  /\ p \in mu.readers
  /\ pc' = [pc EXCEPT ![p] = Entry(Method(op[p]))]
  /\ UNCHANGED << storeVars, op, id, input, todo, exists, list, copied, resp,
                  histVars, fnVars, reqVars >>

\* The steps of a method between its call of the lock and its return.
InLock(p) ==
  \/ GetAll(p)
  \/ GetByID(p)
  \/ CreateAlloc(p)
  \/ CreateStore(p)
  \/ Lookup(p)
  \/ UpdateTitle(p)
  \/ UpdateDescription(p)
  \/ Complete(p)
  \/ Delete(p)

\* The steps a started method takes that wait for no other writer's w.
Runs(p) ==
  \/ WriterAcquire(p)
  \/ ReaderLock(p)
  \/ ReaderWake(p)
  \/ InLock(p)
  \/ WriterUnlock(p)
  \/ RUnlock(p)

NextFair ==
  \/ \E p \in Goroutines : Go(p)
  \/ \E p \in Goroutines : WriterLock(p)
  \/ \E p \in Goroutines : WriterAcquire(p)
  \/ \E p \in Goroutines : ReaderLock(p)
  \/ \E p \in Goroutines : ReaderWake(p)
  \/ \E p \in Goroutines : GetAll(p)
  \/ \E p \in Goroutines : GetByID(p)
  \/ \E p \in Goroutines : CreateAlloc(p)
  \/ \E p \in Goroutines : CreateStore(p)
  \/ \E p \in Goroutines : Lookup(p)
  \/ \E p \in Goroutines : UpdateTitle(p)
  \/ \E p \in Goroutines : UpdateDescription(p)
  \/ \E p \in Goroutines : Complete(p)
  \/ \E p \in Goroutines : Delete(p)
  \/ \E p \in Goroutines : WriterUnlock(p)
  \/ \E p \in Goroutines : RUnlock(p)

\* The scheduler runs every goroutine that can run, and the writers' mutex
\* is handed to a writer that keeps waiting for it (sync.Mutex's starvation
\* mode).
Fairness ==
  \A p \in Goroutines : WF_vars(Runs(p)) /\ SF_vars(WriterLock(p))

SpecFair == InitFair /\ [][NextFair]_vars /\ Fairness

\* ================================================================ properties
\* The store as the callers of its methods see it.
store == << heap, todos, nextID >>

\* The ids Create has returned so far.
ReturnedIDs == { heap[created[k]].ID : k \in 1 .. Len(created) }

\* ---------------------------------------------------------------- C1
\* C1: the k-th Create to take effect returns id k, whatever other calls are
\* interleaved and also when the creates come from concurrent callers.
C1_IdsInCreationOrder ==
  /\ \A k \in 1 .. Len(created) : heap[created[k]].ID = k
  /\ \A p \in Procs :
       (op[p] = "Create" /\ pc[p] = "unlock") =>
         /\ created[Len(created)] = todo[p]
         /\ heap[todo[p]].ID = Len(created)

\* Two callers create concurrently: one Create has taken effect while the
\* other caller's Create waits for the lock.
C1_Witness ==
  \E p, q \in Procs :
    /\ op[p] = "Create" /\ pc[p] = "unlock"
    /\ op[q] = "Create" /\ pc[q] = "lock"
    /\ Len(created) >= 1

\* ---------------------------------------------------------------- C2
\* C2: identifiers are never reused: the counter is above every id Create
\* has returned, no two creates returned the same id, and every stored
\* record's id is the key it is stored under.
C2_NeverReused ==
  /\ \A n \in ReturnedIDs : n < nextID
  /\ \A j, k \in 1 .. Len(created) :
       j # k => heap[created[j]].ID # heap[created[k]].ID
  /\ \A k \in DOMAIN todos : heap[todos[k]].ID = k

\* A Create has taken effect after a Delete removed a record.
C2_Witness ==
  \E p \in Procs :
    /\ op[p] = "Create" /\ pc[p] = "unlock"
    /\ deleted # {}

\* ---------------------------------------------------------------- C3
\* C3: GetByID of an id that Create returned, with no Update, Complete or
\* Delete of that id in between, finds the record with the title and the
\* description of the create's input and completed = false.
C3_CreateThenGet ==
  \A p \in Procs :
    (op[p] = "GetByID" /\ pc[p] = "unlock" /\ id[p] \in DOMAIN fresh) =>
      /\ exists[p]
      /\ todo[p] # NIL
      /\ heap[todo[p]].ID = id[p]
      /\ heap[todo[p]].Title = fresh[id[p]].Title
      /\ heap[todo[p]].Description = fresh[id[p]].Description
      /\ heap[todo[p]].Completed = FALSE

\* GetByID has looked up an id created with a non-empty title and not
\* written since.
C3_Witness ==
  \E p \in Procs :
    /\ op[p] = "GetByID" /\ pc[p] = "unlock"
    /\ id[p] \in DOMAIN fresh
    /\ fresh[id[p]].Title # ""
    /\ exists[p]

\* ---------------------------------------------------------------- C4
\* A caller is inside the body of Update, between Lock and Unlock.
InUpdate(p) ==
  Method(op[p]) = "Update" /\ pc[p] \in {"lookup", "title", "desc"}

\* What an Update of the record at address a may change: that record's
\* title and description, nothing else.
UpdateFrame(a) ==
  /\ todos' = todos
  /\ nextID' = nextID
  /\ Len(heap') = Len(heap)
  /\ \A b \in 1 .. Len(heap) :
       IF b = a
         THEN /\ heap'[b].ID = heap[b].ID
              /\ heap'[b].Completed = heap[b].Completed
              /\ heap'[b].CreatedAt = heap[b].CreatedAt
              /\ heap'[b].Links = heap[b].Links
         ELSE heap'[b] = heap[b]

\* C4: from the moment Update(id, input) on an existing id holds the lock
\* until it returns, only that record's title and description change: its
\* id, completed flag and created-at, every other record, the set of stored
\* ids and the counter stay as they are.
C4_UpdateFrame ==
  [][ \A p \in Procs :
        (InUpdate(p) /\ id[p] \in DOMAIN todos) => UpdateFrame(todos[id[p]])
    ]_vars

\* Update has rewritten a completed record, changing its title, while
\* another record is stored.
C4_Witness ==
  \E p \in Procs :
    /\ op[p] = "Update" /\ pc[p] = "unlock" /\ exists[p]
    /\ before[p].Title # input[p].Title
    /\ heap[todo[p]].Title = input[p].Title
    /\ heap[todo[p]].Description = input[p].Description
    /\ heap[todo[p]].Completed
    /\ Cardinality(DOMAIN todos) >= 2

\* ---------------------------------------------------------------- C5
\* A caller is inside Update, Complete or Delete with an id that is not
\* stored: before the lookup, or after it reported the miss.
InMiss(p) ==
  /\ Method(op[p]) \in {"Update", "Complete", "Delete"}
  /\ \/ pc[p] \in {"lookup", "remove"} /\ id[p] \notin DOMAIN todos
     \/ pc[p] = "unlock" /\ ~exists[p]

\* C5: Update, Complete and Delete of an id that is not stored return
\* not-found (nil, false / nil, false / false) and leave the records, the
\* map and the counter unchanged.
C5_MissLeavesStore ==
  [][ \A p \in Procs :
        InMiss(p) =>
          /\ store' = store
          /\ (pc'[p] # pc[p] /\ pc[p] # "unlock") =>
               /\ pc'[p] = "unlock"
               /\ exists'[p] = FALSE
               /\ todo'[p] = NIL
    ]_vars

\* Delete has missed an id that was deleted before, and Update has missed an
\* id that was never created.
C5_Witness ==
  /\ \E p \in Procs :
       /\ op[p] = "Delete" /\ pc[p] = "unlock" /\ ~exists[p]
       /\ id[p] \in deleted
  /\ \E q \in Procs :
       /\ op[q] = "Update" /\ pc[q] = "lock"
       /\ id[q] \notin ReturnedIDs

\* ---------------------------------------------------------------- C6
\* A caller is inside the body of Complete with an id that is stored.
InComplete(p) ==
  /\ Method(op[p]) = "Complete"
  /\ pc[p] \in {"lookup", "set"}
  /\ id[p] \in DOMAIN todos

\* C6: Complete of a stored id returns found = true with completed = true,
\* and when the record is completed already (a Complete came before) the
\* call leaves the store exactly as it found it.
C6_CompleteIdempotent ==
  [][ \A p \in Procs :
        InComplete(p) =>
          /\ (pc'[p] = "unlock") =>
               /\ exists'[p]
               /\ todo'[p] = todos[id[p]]
               /\ heap'[todo'[p]].Completed
          /\ heap[todos[id[p]]].Completed => store' = store
    ]_vars

\* A second Complete of the same record has run: the record was completed
\* when the call looked it up, and the call is about to return it.
C6_Witness ==
  \E p \in Procs :
    /\ op[p] = "Complete" /\ pc[p] = "unlock" /\ exists[p]
    /\ before[p].Completed
    /\ heap[todo[p]].Completed

\* ---------------------------------------------------------------- C7
\* C7: once a stored record is completed it stays completed for as long as
\* it is stored; no step of any operation sets the flag back.
C7_CompletedMonotonic ==
  [][ \A k \in (DOMAIN todos) \cap (DOMAIN todos') :
        heap[todos[k]].Completed => heap'[todos'[k]].Completed
    ]_vars

\* Update has run to its end on a completed record.
C7_Witness ==
  \E p \in Procs :
    /\ op[p] = "Update" /\ pc[p] = "unlock" /\ exists[p]
    /\ before[p].Completed
    /\ heap[todo[p]].Completed
    /\ heap[todo[p]].Description = input[p].Description

\* ---------------------------------------------------------------- C8
\* C8: after Delete(id) returned true the id is never stored again: GetByID,
\* Update, Complete and Delete of it report not-found and GetAll does not
\* return a record with that id, whatever operations follow.
C8_DeletionPermanent ==
  [][ /\ deleted' \cap DOMAIN todos' = {}
      /\ \A p \in Procs :
           (id[p] \in deleted /\ pc[p] \in {"get", "lookup", "remove"}
              /\ pc'[p] # pc[p]) =>
             /\ exists'[p] = FALSE
             /\ pc'[p] = "unlock"
      /\ \A p \in Procs :
           (pc[p] = "range" /\ pc'[p] # pc[p]) =>
             \A i \in 1 .. Len(list'[p]) :
               heap[list'[p][i]].ID \notin deleted
    ]_vars

\* GetByID has missed a deleted id while a record created after the delete
\* is stored.
C8_Witness ==
  \E p \in Procs :
    /\ op[p] = "GetByID" /\ pc[p] = "unlock" /\ ~exists[p]
    /\ id[p] \in deleted
    /\ \E k \in DOMAIN todos : k > id[p]

\* ---------------------------------------------------------------- C9
\* The title and description pairs that are ever written together into a
\* record of the router's store.
WrittenPairs ==
  { << in.Title, in.Description >> : in \in Bodies \cup Range(Seeds) }

\* C9: a reader that obtains a record through GetByID, as GET /todos/{id}
\* does, while an Update of the same id runs, sees the old title with the
\* old description or the new title with the new description, never a mix.
C9_NoTornRead ==
  \A p \in Procs :
    (op[p] = "GetTodo" /\ pc[p] = "done" /\ resp[p].status = 200) =>
      << resp[p].body.Title, resp[p].body.Description >> \in WrittenPairs

\* ---------------------------------------------------------------- C10
\* C10: buildTodoLinks returns the self, update, delete and todos links for
\* every todo and base URL, and a complete link exactly when the todo is not
\* completed.
C10_TodoLinks ==
  fnDone =>
    /\ fnLinks.Self = Link(TodoHref(fnBase, fnTodo.ID), "GET")
    /\ fnLinks.Update = Link(TodoHref(fnBase, fnTodo.ID), "PUT")
    /\ fnLinks.Delete = Link(TodoHref(fnBase, fnTodo.ID), "DELETE")
    /\ fnLinks.Todos = Link(TodosHref(fnBase), "GET")
    /\ (fnLinks.Complete # <<>>) <=> ~fnTodo.Completed
    /\ ~fnTodo.Completed =>
         fnLinks.Complete = Link(CompleteHref(fnBase, fnTodo.ID), "PATCH")

\* The links of a completed todo have been built.
C10_Witness ==
  /\ fnDone
  /\ fnTodo.Completed
  /\ fnLinks.Self # <<>>

\* ---------------------------------------------------------------- C12
\* ceil(a / b) for a >= 0 and b >= 1: the least n with n * b >= a.
Ceil(a, b) == CHOOSE n \in 0 .. a : n * b >= a /\ (n = 0 \/ (n - 1) * b < a)

\* The number of pages of total records, perPage to a page: one when there
\* is no record.
TotalPages(total, perPage) == IF total = 0 THEN 1 ELSE Ceil(total, perPage)

\* C12: buildCollectionLinks returns self, first and create always, last
\* exactly when there is more than one page, next exactly when the page is
\* before the last one and prev exactly when the page is after the first.
C12_CollectionLinks ==
  fnDone =>
    LET tp == TotalPages(colArgs.total, colArgs.perPage) IN
      /\ colLinks.Self =
           Link(PageHref(fnBase, colArgs.page, colArgs.perPage), "")
      /\ colLinks.First = Link(PageHref(fnBase, 1, colArgs.perPage), "")
      /\ colLinks.Create = Link(TodosHref(fnBase), "POST")
      /\ (colLinks.Last # <<>>) <=> (tp > 1)
      /\ (colLinks.Next # <<>>) <=> (colArgs.page < tp)
      /\ (colLinks.Prev # <<>>) <=> (colArgs.page > 1)

\* The links of page 2 of 35 records, 10 to a page: four pages, with last,
\* next and prev.
C12_Witness ==
  /\ fnDone
  /\ colArgs = [page |-> 2, perPage |-> 10, total |-> 35]
  /\ colLinks.Last = Link(PageHref(fnBase, 4, 10), "")
  /\ colLinks.Next = Link(PageHref(fnBase, 3, 10), "")
  /\ colLinks.Prev = Link(PageHref(fnBase, 1, 10), "")

\* ---------------------------------------------------------------- C13
\* The integers a query value is the decimal text of, with or without a plus
\* sign: one of QueryInts, or none.
IntOf(str) ==
  {n \in QueryInts : Decimal(n) = str \/ (n >= 0 /\ << "+" >> \o Decimal(n) = str)}

\* The requested value when it is an integer in lo .. hi, else the default.
Effective(str, lo, hi, default) ==
  IF \E n \in IntOf(str) : lo <= n /\ n <= hi
    THEN CHOOSE n \in IntOf(str) : TRUE
    ELSE default

\* C13: the effective page is the requested page when it is an integer >= 1
\* and 1 otherwise; the effective per_page is the requested value when it is
\* an integer in 1..100 and 10 otherwise; each depends on its own parameter
\* only, and the metadata of the response reports both unchanged.
C13_PageDefaults ==
  fnDone =>
    /\ pgResp.page = Effective(pgReq.page, 1, MaxInt, 1)
    /\ pgResp.perPage = Effective(pgReq.perPage, 1, 100, 10)
    /\ pgResp.status = 200 =>
         /\ pgResp.Page = pgResp.page
         /\ pgResp.PerPage = pgResp.perPage

\* A request with a valid page and a per_page over the limit: the page is
\* kept while per_page falls back to 10, and the metadata says so.
C13_Witness ==
  /\ fnDone
  /\ pgReq.page = Decimal(2)
  /\ pgReq.perPage = Decimal(101)
  /\ pgResp.status = 200
  /\ pgResp.Page = 2
  /\ pgResp.PerPage = 10

\* ---------------------------------------------------------------- C14
\* C14: for every accepted page and per_page the slice bounds satisfy
\* 0 <= start <= end <= total, no index outside the list is read, the answer
\* is 200, and the page is empty when (page-1)*per_page >= total.
C14_SliceBounds ==
  fnDone =>
    /\ 0 <= pgResp.start
    /\ pgResp.start <= pgResp.end
    /\ pgResp.end <= pgReq.total
    /\ \A k \in 1 .. Len(pgResp.read) :
         0 <= pgResp.read[k] /\ pgResp.read[k] < pgReq.total
    /\ pgResp.status = 200
    /\ (pgResp.page - 1) * pgResp.perPage >= pgReq.total => pgResp.Count = 0

\* ---------------------------------------------------------------- C20
\* The positions inside a method's body, from the first statement after the
\* lock is taken to the deferred unlock.
WriterBody ==
  {"alloc", "store", "lookup", "title", "desc", "set", "remove", "unlock"}
ReaderBody == {"range", "get", "unlock"}

InWriter(p) == Method(op[p]) \in Writers /\ pc[p] \in WriterBody
InReader(p) == Method(op[p]) \in Readers /\ pc[p] \in ReaderBody

\* C20: at most one operation is inside a mutating method, none is inside a
\* reading method at the same time, a caller inside Create, Update, Complete
\* or Delete holds the exclusive lock and a caller inside GetAll or GetByID
\* holds the shared lock.
C20_LockDiscipline ==
  /\ Cardinality({ p \in Procs : InWriter(p) }) <= 1
  /\ \A p, q \in Procs : ~(InWriter(p) /\ InReader(q))
  /\ \A p \in Procs : InWriter(p) => mu.writer = p
  /\ \A p \in Procs : InReader(p) => p \in mu.readers
  /\ mu.writer # "" => mu.readers = {}

\* A Create holds the exclusive lock between its two writes while a reader
\* waits for the lock.
C20_Witness ==
  \E p, q \in Procs :
    /\ op[p] = "Create" /\ pc[p] = "store" /\ mu.writer = p
    /\ op[q] \in Readers /\ pc[q] = "lock"

\* ---------------------------------------------------------------- C11
\* The handlers whose success response carries one todo.
TodoHandlers == {"CreateTodo", "GetTodo", "UpdateTodo", "CompleteTodo"}

\* A caller whose handler has sent a success response carrying a todo.
SentTodo(p) ==
  /\ pc[p] = "done"
  /\ op[p] \in TodoHandlers
  /\ resp[p].status \in {200, 201}

\* C11: in every success response that carries a todo the complete link is
\* present exactly when the completed field of that response is false.
C11_CompleteLinkIffOpen ==
  \A p \in Procs :
    SentTodo(p) =>
      ((resp[p].body.Links.Complete # <<>>) <=> ~resp[p].body.Completed)

\* ---------------------------------------------------------------- C15
\* The handlers that take an id path segment, and the status each answers
\* when the record is found.
IdHandlers == {"GetTodo", "UpdateTodo", "CompleteTodo", "DeleteTodo"}
Success(o) == IF o = "DeleteTodo" THEN 204 ELSE 200

\* The integers an id path segment is the decimal text of: one or none.
IdInts == {0 - 1, 0, 1}
IdOf(idStr) == {n \in IdInts : Decimal(n) = idStr}

\* The ids of the records created so far, stored or deleted.
EverStored == { heap[a].ID : a \in 1 .. Len(heap) }

\* A request whose body the handler accepts: any for the handlers that read
\* none, JSON with a non-empty title for Update.
BodyAccepted(p) ==
  op[p] = "UpdateTodo" => req[p].body.ok /\ req[p].body.value.Title # ""

\* C15: a request whose id segment is not an integer is answered 400 and is
\* never at a position inside or after the service call; a request whose id
\* is an integer (zero and negative included) is answered 404 when the
\* service found no record and the success status when it found one; an id
\* no record ever had is answered 404 and the id of a record that is still
\* stored is answered with the success status.
C15_IdStatus ==
  \A p \in Procs :
    op[p] \in IdHandlers =>
      /\ IdOf(req[p].idStr) = {} =>
           /\ pc[p] = "done"
           /\ resp[p].status = 400
           /\ ~changed[p]
      /\ (IdOf(req[p].idStr) # {} /\ BodyAccepted(p) /\ pc[p] = "done") =>
           LET n == CHOOSE k \in IdOf(req[p].idStr) : TRUE IN
             /\ resp[p].status = IF exists[p] THEN Success(op[p]) ELSE 404
             /\ n \notin EverStored => resp[p].status = 404
             /\ (n \in DOMAIN todos /\ op[p] # "DeleteTodo") =>
                  resp[p].status = 200
             /\ (op[p] = "DeleteTodo" /\ resp[p].status = 204) =>
                  n \in deleted /\ n \notin DOMAIN todos

\* One request has updated a stored record and is answered 200 while another
\* completes id -1 and is answered 404.
C15_Witness ==
  \E p, q \in Procs :
    /\ pc[p] = "done" /\ op[p] = "UpdateTodo"
    /\ req[p].idStr = Decimal(1) /\ resp[p].status = 200
    /\ pc[q] = "done" /\ op[q] = "CompleteTodo"
    /\ req[q].idStr = Decimal(0 - 1) /\ resp[q].status = 404

\* ---------------------------------------------------------------- C16
\* The statuses of a full success and of a structured error.
SuccessStatus == {200, 201, 204}
ErrorStatus == {400, 404}

\* C16: every request ends in a success or in one structured error; a
\* request answered 400 or 404 has changed neither the records nor nextID,
\* and a request that changed the store is answered with a success status.
C16_OneOutcome ==
  /\ \A p \in Procs :
       pc[p] = "done" =>
         /\ resp[p].status \in SuccessStatus \cup ErrorStatus
         /\ resp[p].status \in ErrorStatus => ~changed[p]
         /\ changed[p] => resp[p].status \in SuccessStatus
  /\ \A p \in Procs :
       (pc[p] # "done" /\ changed[p]) => resp[p].status \notin ErrorStatus
  /\ pgResp # NoPage => pgResp.status \in SuccessStatus \cup ErrorStatus

\* ---------------------------------------------------------------- C17
\* The handlers that take a TodoInput.
InputHandlers == {"CreateTodo", "UpdateTodo"}

\* C17: every stored record has a non-empty title, and a POST or PUT whose
\* title is empty or missing is answered 400 without reaching the store.
C17_TitlesNonEmpty ==
  /\ \A n \in DOMAIN todos : heap[todos[n]].Title # ""
  /\ \A p \in Procs :
       (op[p] \in InputHandlers /\ req[p].body.value.Title = "") =>
         /\ pc[p] = "done"
         /\ resp[p].status = 400
         /\ ~changed[p]

\* A POST with an empty title has been answered 400 and a POST with a title
\* has been answered 201; the store holds the seeds and the one new record.
C17_Witness ==
  \E p, q \in Procs :
    /\ pc[p] = "done" /\ op[p] = "CreateTodo"
    /\ req[p].body = Body(TRUE, TodoInputZero) /\ resp[p].status = 400
    /\ pc[q] = "done" /\ op[q] = "CreateTodo" /\ resp[q].status = 201
    /\ DOMAIN todos = 1 .. (Len(Seeds) + 1)

\* ---------------------------------------------------------------- C19
\* C19: no handler writes the links of a stored record: the links field of
\* every record held in the store is empty.
C19_LinksNeverStored ==
  \A n \in DOMAIN todos : heap[todos[n]].Links = NoLinks

\* ---------------------------------------------------------------- C18
\* The client has the response to the k-th request of its script.
Answered(k) == stage = k - 1 /\ pc[Client] = "done"

\* C18: the POST is answered 201 with a non-zero id, completed=false and a
\* Location of baseURL/todos/{id}; the GET that follows 200 with the same
\* id; the PATCH complete 200 with completed=true; the DELETE 204; the last
\* GET 404.
C18_Lifecycle ==
  /\ Answered(1) =>
       /\ resp[Client].status = 201
       /\ resp[Client].body.ID # 0
       /\ ~resp[Client].body.Completed
       /\ resp[Client].location = << baseURL, "/todos/", resp[Client].body.ID >>
  /\ Answered(2) =>
       /\ resp[Client].status = 200
       /\ resp[Client].body.ID = lifeID
  /\ Answered(3) =>
       /\ resp[Client].status = 200
       /\ resp[Client].body.Completed
  /\ Answered(4) => resp[Client].status = 204
  /\ Answered(5) => resp[Client].status = 404
  /\ stage > 0 => lifeID # 0

\* The client has come to the end: its last GET is answered 404, on an id
\* its POST got after another POST took the first free one.
C18_Witness ==
  /\ Answered(5)
  /\ resp[Client].status = 404
  /\ lifeID = Len(Seeds) + 2

\* ---------------------------------------------------------------- C29
\* NewRouter has returned and no request has created a record yet.
Seeded == Booted /\ Len(heap) = Len(Seeds)

\* C29: the router starts with exactly the records 1, 2 and 3, none
\* completed, each with a title, and nextID 4; the first POST that creates a
\* record is answered with id 4.  The started store is the one the other
\* specifications begin in.
C29_SeededStore ==
  /\ Seeded =>
       /\ DOMAIN todos = {1, 2, 3}
       /\ \A n \in DOMAIN todos :
            /\ heap[todos[n]].ID = n
            /\ ~heap[todos[n]].Completed
            /\ heap[todos[n]].Title # ""
       /\ nextID = 4
  /\ (Seeded /\ \A p \in Procs : pc[p] = "idle") => NewRouter
  /\ \A p \in Procs :
       (pc[p] = "done" /\ op[p] = "CreateTodo" /\ resp[p].status = 201
          /\ created[Len(Seeds) + 1] = todo[p]) =>
         /\ resp[p].body.ID = 4
         /\ resp[p].location = << baseURL, "/todos/", 4 >>

\* The first POST after the start has been answered 201.
C29_Witness ==
  \E p \in Procs :
    /\ pc[p] = "done" /\ op[p] = "CreateTodo" /\ resp[p].status = 201
    /\ created[Len(Seeds) + 1] = todo[p]
    /\ DOMAIN todos = {1, 2, 3, 4}

\* ---------------------------------------------------------------- C24
\* What a PUT is answered with when its checks are made in the order id,
\* JSON body, title, lookup and the first failure decides.
PutAnswer(r, found) ==
  IF IdOf(r.idStr) = {} THEN [status |-> 400, error |-> "Invalid todo ID"]
  ELSE IF ~r.body.ok THEN [status |-> 400, error |-> "Invalid JSON"]
  ELSE IF r.body.value.Title = ""
    THEN [status |-> 400, error |-> "Validation error"]
  ELSE IF ~found THEN [status |-> 404, error |-> "Todo not found"]
  ELSE [status |-> 200, error |-> ""]

\* C24: a PUT is answered by its first failing check in the order id, JSON
\* body, title, lookup; a PUT that fails one of the first three is answered
\* 400 without reaching the lookup, also when its id is not in the store.
C24_UpdateCheckOrder ==
  \A p \in Procs :
    op[p] = "UpdateTodo" =>
      /\ pc[p] = "done" =>
           /\ resp[p].status = PutAnswer(req[p], exists[p]).status
           /\ resp[p].error = PutAnswer(req[p], exists[p]).error
      /\ PutAnswer(req[p], TRUE).status = 400 =>
           /\ pc[p] = "done"
           /\ resp[p].status = 400
           /\ ~exists[p]

\* A PUT with an unparsable body on an id that is not in the store has been
\* answered 400.
C24_Witness ==
  \E p \in Procs :
    /\ pc[p] = "done" /\ op[p] = "UpdateTodo"
    /\ req[p].idStr = Decimal(0) /\ ~req[p].body.ok
    /\ 0 \notin DOMAIN todos
    /\ resp[p].status = 400

\* ---------------------------------------------------------------- C26
\* The page a collection link targets.
Target(link) == link[1].Href[3]

\* min(perPage, max(0, total - (page-1)*perPage)), in unbounded arithmetic.
PageCount(page, perPage, total) ==
  LET rest == total - (page - 1) * perPage IN
    IF rest <= 0 THEN 0 ELSE IF rest < perPage THEN rest ELSE perPage

\* C26: in every List response total is the number of records read from the
\* store, count is the number of todos in the page and equals
\* min(per_page, max(0, total - (page-1)*per_page)), total_pages is
\* ceil(total/per_page) with a floor of 1, and the last link, when present,
\* targets page total_pages.
C26_MetaConsistent ==
  (fnDone /\ pgResp.status = 200) =>
    /\ pgResp.Total = pgReq.total
    /\ pgResp.Count = Len(pgResp.read)
    /\ pgResp.Count = PageCount(pgResp.Page, pgResp.PerPage, pgResp.Total)
    /\ pgResp.TotalPages = TotalPages(pgResp.Total, pgResp.PerPage)
    /\ (pgResp.Links.Last # <<>>) <=> (pgResp.TotalPages > 1)
    /\ pgResp.Links.Last # <<>> =>
         Target(pgResp.Links.Last) = pgResp.TotalPages

\* ---------------------------------------------------------------- C27
\* The pages 1 .. total_pages of a List response.
Pages == 1 .. pgResp.TotalPages

\* A link that is absent, or targets one of the given pages.
Within(link, pages) == link = <<>> \/ Target(link) \in pages

\* C27: every next, prev and last link of a List response targets a page in
\* 1..total_pages.
C27_LinkTargets ==
  (fnDone /\ pgResp.status = 200) =>
    /\ Within(pgResp.Links.Next, Pages)
    /\ Within(pgResp.Links.Prev, Pages)
    /\ Within(pgResp.Links.Last, Pages)

\* C27 as amended: every next and last link targets a page in
\* 1..total_pages; every prev link targets page-1, which is at least 1 and
\* is in 1..total_pages exactly when page <= total_pages + 1.
C27_LinkTargetsAmended ==
  (fnDone /\ pgResp.status = 200) =>
    /\ Within(pgResp.Links.Next, Pages)
    /\ Within(pgResp.Links.Last, Pages)
    /\ pgResp.Links.Prev # <<>> =>
         /\ Target(pgResp.Links.Prev) = pgResp.Page - 1
         /\ Target(pgResp.Links.Prev) >= 1
         /\ (Target(pgResp.Links.Prev) \in Pages)
              <=> (pgResp.Page <= pgResp.TotalPages + 1)

\* Page 4 of a list that has one page: the prev link targets page 3.
C27_Witness ==
  /\ fnDone
  /\ pgResp.status = 200
  /\ pgResp.Page = 4
  /\ pgResp.TotalPages = 1
  /\ Target(pgResp.Links.Prev) = 3

\* ---------------------------------------------------------------- C25
\* C25: a 200 response to a PUT carries the title and the description of
\* that PUT's body.
C25_PutEchoesInput ==
  \A p \in Procs :
    (pc[p] = "done" /\ op[p] = "UpdateTodo" /\ resp[p].status = 200) =>
      /\ resp[p].body.Title = input[p].Title
      /\ resp[p].body.Description = input[p].Description

\* ---------------------------------------------------------------- C22
\* A caller that has the result of GetAll: from the range loop on.
HasList(p) ==
  /\ Method(op[p]) = "GetAll"
  /\ pc[p] \in {"unlock", "check", "item", "append", "done"}

\* What the caller observes in the entries of its result.
Entries(p) ==
  [k \in 1 .. Len(list[p]) |->
     << heap[list[p][k]].Title, heap[list[p][k]].Description,
        heap[list[p][k]].Completed >>]

\* C22: the result of GetAll holds exactly one entry per stored record at
\* the instant of the call, and what the caller observes in the entries
\* stays what it was at that instant.
C22_GetAllSnapshot ==
  [][\A p \in Procs :
       /\ (Method(op[p]) = "GetAll" /\ pc[p] = "range" /\ pc'[p] = "unlock") =>
            /\ Len(list'[p]) = Cardinality(DOMAIN todos)
            /\ Range(list'[p]) = Range(todos)
       /\ (HasList(p) /\ HasList(p)' /\ list'[p] = list[p]) =>
            Entries(p)' = Entries(p)]_vars

\* ---------------------------------------------------------------- C28
\* The client has fetched the pages 1 .. total_pages.
FetchedAll == stage >= 1 /\ stage = pgResp.TotalPages

\* C28: the pages 1..total_pages, fetched with the same per_page while the
\* store is not modified, hold every stored record exactly once.
C28_PagesPartition ==
  FetchedAll =>
    /\ Len(resp[Client].todos) = Cardinality(DOMAIN todos)
    /\ { resp[Client].todos[k].ID : k \in 1 .. Len(resp[Client].todos) }
         = DOMAIN todos


\* ---------------------------------------------------------------- C23
\* What the caller of the service holds as a method returns.
Held(p) == [todo |-> todo[p], ok |-> exists[p], list |-> Range(list[p])]

\* What the direct call returned.
DirectHeld == [todo |-> direct.todo, ok |-> direct.ok, list |-> direct.list]

\* The store behind the service and the second store hold the same records
\* under the same ids and the same counter.
SameStore ==
  /\ heap = direct.heap
  /\ todos = direct.todos
  /\ nextID = direct.nextID

\* C23: for every sequence of calls, each service method returns what its
\* store counterpart returns on a store called directly with the same
\* arguments, and leaves the store behind it in the same state.
C23_ServiceIsStore ==
  pc[Main] \in {"unlock", "idle"} =>
    /\ SameStore
    /\ pc[Main] = "unlock" => Held(Main) = DirectHeld

\* A CompleteTodo through the service returns after earlier calls stored
\* and changed a record; a second record is stored too.
C23_Witness ==
  /\ op[Main] = ServiceOp("CompleteTodo")
  /\ pc[Main] = "unlock"
  /\ exists[Main]
  /\ heap[todo[Main]].Title = "A"
  /\ Len(heap) = MaxID


\* ---------------------------------------------------------------- C21
\* The goroutine is inside a method and holds the lock.
Inside(p) == pc[p] \notin {"idle", "lock", "drain", "sleep"}

\* The goroutine holds no part of the mutex.
Released(p) ==
  /\ mu.writer # p
  /\ mu.w # p
  /\ p \notin mu.readers
  /\ p \notin mu.blocked

\* Some goroutine is in a call and none of those can take a step.
Deadlocked ==
  /\ \E p \in Goroutines : pc[p] # "idle"
  /\ \A p \in Goroutines :
       pc[p] # "idle" => ~ENABLED (WriterLock(p) \/ Runs(p))

\* C21: under a fair scheduler every started store method acquires its
\* lock, and every method that holds the lock returns with the lock
\* released; no state is reachable in which the started methods all wait.
C21_NoBlocking ==
  /\ \A p \in Goroutines : (pc[p] # "idle") ~> (pc[p] = "idle")
  /\ [](\A p \in Goroutines : pc[p] = "idle" => Released(p))
  /\ []~Deadlocked

\* A writer is announced and waits for a reader inside GetAll to leave,
\* while another reader sleeps behind the writer.
C21_Witness ==
  \E p, q, r \in Goroutines :
    /\ pc[p] = "drain"
    /\ q \in mu.readers /\ Inside(q)
    /\ pc[r] = "sleep"

====
